---- MODULE Spec2Model ----
(***************************************************************************)
(* Word-Finder: the SQLite word store (OptimizedWordDatabase), the merge   *)
(* pipeline (WordManager.merge_with_database), the paginated fetch         *)
(* orchestrator (WordManager.fetch_*, WordDisplayGUI._fetch_with_limit)    *)
(* and the SignalHandler.                                                  *)
(*                                                                         *)
(* Spec:          one call of a fetch entry point against the remote,      *)
(*                with the cancellation flag raised from outside at any    *)
(*                moment, by a signal or by a direct assignment.           *)
(* SpecStore:     one thread calling insert_words_batch and                *)
(*                merge_with_database on the store handles of a            *)
(*                WordManager.                                             *)
(* SpecThreads:   the same calls issued by two threads.                    *)
(* SpecLifecycle: one thread's upserts, merges and legacy imports          *)
(*                (migrate_from_json), with the store re-initialized on    *)
(*                the same file (_init_database) between them.             *)
(* SpecCodec:     _dict_matches_to_flags and _flags_to_dict_matches.       *)
(* SpecQueries:   the read operations over every content of a small        *)
(*                store.                                                   *)
(* SpecReads:     the read operations of one thread while another writes.  *)
(* SpecMerges:    merge_with_database as a single step, with either value  *)
(*                of is_partial.                                           *)
(* SpecFair:      a single-length fetch with an event loop that keeps      *)
(*                running and a remote that answers every request.         *)
(*                                                                         *)
(* Scope.  SIGINT and SIGTERM are routed to SignalHandler.signal_handler,  *)
(* so the except KeyboardInterrupt clauses of the fetch coroutines are not *)
(* entered and are not modelled.                                           *)
(* SignalHandler.reset is never called: the flag, once set, stays set.     *)
(* fetch_all_words is modelled from line 223 on (show_cached=False, as     *)
(* fetch_multiple_lengths_concurrent calls it).  A fetch coroutine catches *)
(* every Exception itself, so the except clauses around the awaits in the  *)
(* multi-length entry points (lines 361-363, 394-396) are never entered.   *)
(* In Spec the store calls of a fetch are atomic and meet no store fault;  *)
(* store faults and thread interleavings are the subject of SpecStore and  *)
(* SpecThreads.  CURRENT_TIMESTAMP advances in SpecStore and SpecLifecycle *)
(* only.  A read sees the committed rows; SQLite's own file locking        *)
(* between a read and a commit is not modelled.                            *)
(***************************************************************************)
EXTENDS Integers, Sequences, FiniteSets, TLC

VARIABLES
    words,          \* the committed rows of the SQLite table "words"
    lock,           \* lock[h]: the thread holding handle h's threading.Lock, or NoThread
    txn,            \* the thread holding SQLite's write transaction on the file, or NoThread
    pending,        \* the rows as the open write transaction sees them (uncommitted)
    tpc,            \* tpc[t]: where thread t is inside its store call
    call,           \* call[t]: the call thread t is executing and its arguments
    outcome,        \* outcome[t]: how the call ended, with the table before and after its write
    signal_handler, \* TRUE iff WordManager.signal_handler is a SignalHandler (not None)
    should_exit,    \* SignalHandler.should_exit, the cancellation flag
    exit_by,        \* who set should_exit first: "none", "external" or "fetch"
    partial_words,  \* the length whose fetch buffer WordManager.partial_words refers to (0: its own list)
    num_pages,      \* num_pages[L]: how many pages the remote exposes for length L
    task,           \* task[L]: the single-length fetch coroutine for length L
    driver,         \* the entry point called, its arguments and its progress
    clock,          \* SQLite's CURRENT_TIMESTAMP
    shutdown_callback, \* TRUE iff SignalHandler.shutdown_callback is set (not None)
    callback_calls, \* how many times the shutdown callback has been invoked
    dictionaries,   \* the rows of the SQLite table "dictionaries"
    metadata        \* the SQLite table "metadata": key -> value

threadVars == <<lock, txn, pending, tpc, call, outcome>>
fetchVars == <<signal_handler, should_exit, exit_by, partial_words, num_pages, task, driver>>
signalVars == <<shutdown_callback, callback_calls>>
metaVars == <<dictionaries, metadata>>
vars == <<words, lock, txn, pending, tpc, call, outcome,
          signal_handler, should_exit, exit_by, partial_words, num_pages, task, driver,
          clock, shutdown_callback, callback_calls, dictionaries, metadata>>

-----------------------------------------------------------------------------
(* Bounds *)

\* longest batch a thread hands to the store
MaxBatch == 2

\* most pages the remote exposes for one length
MaxPages == 3

\* largest word cap handed to _fetch_with_limit
MaxCap == 3

\* latest value of CURRENT_TIMESTAMP
MaxClock == 2

\* signals delivered with a callback set
MaxSignals == 2

-----------------------------------------------------------------------------
(* Values *)

\* Python's None where an integer is expected (a points value of None)
NULL == -1

NoThread == "none"

\* the GUI's main thread and its fetch thread (word_display_gui.py:790)
Threads == {"main", "fetch"}

\* the two OptimizedWordDatabase objects a WordManager builds on one file
Handles == {"db", "db_adapter"}

\* _dict_matches_to_flags.flag_mapping, in bit order (bit i-1 for FlagNames[i])
FlagNames == <<"octordle", "otcwl", "quordle", "sowpods", "wordle", "wwf">>

Pow2(n) == IF n = 0 THEN 1 ELSE IF n = 1 THEN 2 ELSE IF n = 2 THEN 4
           ELSE IF n = 3 THEN 8 ELSE IF n = 4 THEN 16 ELSE 32

FlagBit(m, i) ==
    IF FlagNames[i] \in DOMAIN m /\ m[FlagNames[i]] THEN Pow2(i - 1) ELSE 0

\* every name present in the mapping sets its bit, whatever its value
DictMatchesToFlagsPresent(m) ==
    LET bit(i) == IF FlagNames[i] \in DOMAIN m THEN Pow2(i - 1) ELSE 0
    IN  bit(1) + bit(2) + bit(3) + bit(4) + bit(5) + bit(6)

\* OptimizedWordDatabase._dict_matches_to_flags
DictMatchesToFlags(m) ==
    FlagBit(m, 1) + FlagBit(m, 2) + FlagBit(m, 3)
        + FlagBit(m, 4) + FlagBit(m, 5) + FlagBit(m, 6)

\* flags & (1 << bit_pos) (line 116)
Bit(flags, bit_pos) == (flags \div Pow2(bit_pos)) % 2 = 1

RegisteredNames == {FlagNames[i] : i \in 1..Len(FlagNames)}

\* the bit position flag_mapping gives a registered name
BitPos(name) == (CHOOSE i \in 1..Len(FlagNames) : FlagNames[i] = name) - 1

\* OptimizedWordDatabase._flags_to_dict_matches
FlagsToDictMatches(flags) == [name \in RegisteredNames |-> Bit(flags, BitPos(name))]

\* word records as the callers hand them over: Python dicts, any key may be missing
WordInputs ==
    { [word |-> "ab", points |-> 1, dict_matches |-> [wordle |-> TRUE]],
      [word |-> "ab", points |-> 2, dict_matches |-> [otcwl |-> TRUE, wordle |-> FALSE]],
      [word |-> "abc"],
      [points |-> 5],
      [word |-> "cd", points |-> NULL] }

RECURSIVE SeqsUpTo(_, _)
SeqsUpTo(S, n) ==
    IF n = 0 THEN {<<>>}
    ELSE LET shorter == SeqsUpTo(S, n - 1)
         IN  shorter \cup {Append(s, x) : s \in shorter, x \in S}

Batches == SeqsUpTo(WordInputs, MaxBatch)

-----------------------------------------------------------------------------
(* OptimizedWordDatabase.insert_words_batch, as pure steps *)

\* word_info.get(key, default)
Get(d, key, default) == IF key \in DOMAIN d THEN d[key] ELSE default

\* the length the record itself declares
LengthDeclared(w) == Get(w, "length", 0)

\* len(word_info['word']) (line 132)
LengthOf(w) == Len(w.word)

\* lines 128-136: the tuple built for one record (KeyError when 'word' is missing)
WordTuple(w) ==
    [word       |-> w.word,
     length     |-> LengthOf(w),
     points     |-> Get(w, "points", 0),
     dict_flags |-> DictMatchesToFlags(Get(w, "dict_matches", <<>>))]

\* the for loop of lines 128-136 raises KeyError at the first record without 'word'
RaisesKeyError(batch) == \E i \in 1..Len(batch) : "word" \notin DOMAIN batch[i]

WordData(batch) == [i \in 1..Len(batch) |-> WordTuple(batch[i])]

\* the row a statement of lines 138-141 stores for the tuple d: updated_at is
\* CURRENT_TIMESTAMP by the statement, created_at by the column default (line 53)
StoredRow(d) ==
    [word |-> d.word, length |-> d.length, points |-> d.points,
     dict_flags |-> d.dict_flags, created_at |-> clock, updated_at |-> clock]

\* the columns of a stored row that the statement's parameters supply
Columns(r) ==
    [word |-> r.word, length |-> r.length, points |-> r.points,
     dict_flags |-> r.dict_flags]

\* one INSERT statement without conflict resolution: a second row for the word
InsertPlain(rows, d) == rows \cup {StoredRow(d)}

\* an upsert that ORs the new dictionary bits into the stored ones
InsertOrMergeFlags(rows, d) ==
    LET old == {r \in rows : r.word = d.word}
        bit(i) == IF \/ Bit(d.dict_flags, i)
                     \/ \E r \in old : Bit(r.dict_flags, i)
                  THEN Pow2(i) ELSE 0
    IN  {r \in rows : r.word # d.word}
            \cup {[StoredRow(d) EXCEPT
                      !.dict_flags = bit(0) + bit(1) + bit(2) + bit(3) + bit(4) + bit(5)]}

\* one INSERT OR REPLACE statement of lines 138-141: the UNIQUE(word) conflict
\* deletes the old row, then the new one is inserted
InsertOrReplace(rows, d) == {r \in rows : r.word # d.word} \cup {StoredRow(d)}

\* points INTEGER NOT NULL (line 51) has no default: the statement aborts
ViolatesNotNull(d) == d.points = NULL

\* cursor.executemany: the statements run in order inside one transaction and
\* stop at the first that fails; rows is the transaction's view so far
RECURSIVE ExecuteMany(_, _, _)
ExecuteMany(rows, data, i) ==
    IF i > Len(data) THEN [rows |-> rows, ok |-> TRUE]
    ELSE IF ViolatesNotNull(data[i]) THEN [rows |-> rows, ok |-> FALSE]
    ELSE ExecuteMany(InsertOrReplace(rows, data[i]), data, i + 1)

\* get_words_by_length / get_length_distribution read the committed rows
RowsOfLength(rows, L) == {r \in rows : r.length = L}

LengthDistribution(rows) ==
    [L \in {r.length : r \in rows} |-> Cardinality(RowsOfLength(rows, L))]

\* get_top_words(length, limit), lines 166-168: ORDER BY points DESC LIMIT ?
\* fixes the order only up to ties, so every row sequence SQLite may return
GetTopWords(rows, L, limit) ==
    LET S == RowsOfLength(rows, L)
        n == IF Cardinality(S) < limit THEN Cardinality(S) ELSE limit
    IN  { res \in [1..n -> S] :
            /\ \A i, j \in 1..n : i < j => res[i] # res[j] /\ res[i].points >= res[j].points
            /\ \A r \in S : (\A i \in 1..n : res[i] # r) =>
                                \A i \in 1..n : res[i].points >= r.points }

-----------------------------------------------------------------------------
(* The store under threads: insert_words_batch and merge_with_database, step by step *)

\* batches of the two-thread specification: a good record, one without 'word',
\* one with points None
ThreadInputs ==
    { [word |-> "ab", points |-> 1, dict_matches |-> [wordle |-> TRUE]],
      [points |-> 5],
      [word |-> "cd", points |-> NULL] }

ThreadBatches == SeqsUpTo(ThreadInputs, MaxBatch)

\* the length argument of merge_with_database
MergeLengths == {2, 3}

NoCall == [op |-> "none", handle |-> "db", batch |-> <<>>, length |-> 0, is_partial |-> FALSE]
NoOutcome == [kind |-> "none", value |-> 0, success |-> FALSE, before |-> {}, after |-> {}]

InitThreads ==
    /\ lock = [h \in Handles |-> NoThread]
    /\ txn = NoThread
    /\ pending = {}
    /\ tpc = [t \in Threads |-> "idle"]
    /\ call = [t \in Threads |-> NoCall]
    /\ outcome = [t \in Threads |-> NoOutcome]

\* insert_words_batch without the early return: every batch, the empty one
\* too, goes on to take the lock
CallInsertLocks(t, h, b) ==
    /\ tpc[t] = "idle"
    /\ UNCHANGED <<fetchVars, signalVars, clock, metaVars>>
    /\ call' = [call EXCEPT ![t] =
            [op |-> "insert_words_batch", handle |-> h, batch |-> b,
             length |-> 0, is_partial |-> FALSE]]
    /\ tpc' = [tpc EXCEPT ![t] = "lock"]
    /\ UNCHANGED <<words, lock, txn, pending, outcome>>

\* insert_words_batch lines 118-121: an empty batch returns 0 before the lock is
\* touched. Handle "db" is WordManager.db, "db_adapter" the store inside
\* WordManager.db_adapter (DatabaseAdapter.merge_word_data, line 354)
CallInsert(t, h, b) ==
    /\ tpc[t] = "idle"
    /\ UNCHANGED <<fetchVars, signalVars, clock, metaVars>>
    /\ call' = [call EXCEPT ![t] =
            [op |-> "insert_words_batch", handle |-> h, batch |-> b,
             length |-> 0, is_partial |-> FALSE]]
    /\ IF b = <<>>
       THEN /\ tpc' = [tpc EXCEPT ![t] = "returned"]
            /\ outcome' = [outcome EXCEPT ![t] =
                    [kind |-> "return", value |-> 0, success |-> TRUE,
                     before |-> words, after |-> words]]
       ELSE /\ tpc' = [tpc EXCEPT ![t] = "lock"]
            /\ outcome' = outcome
    /\ UNCHANGED <<words, lock, txn, pending>>

\* merge_with_database lines 128-132: an empty batch returns False at once
CallMerge(t, b, L, p) ==
    /\ tpc[t] = "idle"
    /\ UNCHANGED <<fetchVars, signalVars, clock, metaVars>>
    /\ call' = [call EXCEPT ![t] =
            [op |-> "merge_with_database", handle |-> "db", batch |-> b,
             length |-> L, is_partial |-> p]]
    /\ IF b = <<>>
       THEN /\ tpc' = [tpc EXCEPT ![t] = "returned"]
            /\ outcome' = [outcome EXCEPT ![t] =
                    [kind |-> "return", value |-> 0, success |-> FALSE,
                     before |-> words, after |-> words]]
       ELSE /\ tpc' = [tpc EXCEPT ![t] = "read1"]
            /\ outcome' = outcome
    /\ UNCHANGED <<words, lock, txn, pending>>

\* merge_with_database lines 164-166: except Exception prints and returns False
\* (migrate_from_json lines 285-287 does the same)
MergeExcept(t, rows) ==
    /\ tpc' = [tpc EXCEPT ![t] = "returned"]
    /\ outcome' = [outcome EXCEPT ![t] =
            [kind |-> "return", value |-> 0, success |-> FALSE,
             before |-> words, after |-> rows]]

\* the exception leaves insert_words_batch and reaches its caller
InsertRaises(t, rows) ==
    /\ tpc' = [tpc EXCEPT ![t] = "raised"]
    /\ outcome' = [outcome EXCEPT ![t] =
            [kind |-> "raise", value |-> 0, success |-> FALSE,
             before |-> words, after |-> rows]]

\* merge_with_database lines 139-142: the count read before the upsert; the
\* read may fail (sqlite3.OperationalError), which the except clause catches
MergeReadBefore(t, fails) ==
    /\ tpc[t] = "read1"
    /\ UNCHANGED <<fetchVars, signalVars, clock, metaVars>>
    /\ IF fails
       THEN MergeExcept(t, words)
       ELSE /\ tpc' = [tpc EXCEPT ![t] = "lock"]
            /\ outcome' = outcome
    /\ UNCHANGED <<words, lock, txn, pending, call>>

\* line 123: with self._lock (blocks while another thread holds this handle's lock)
AcquireLock(t) ==
    /\ tpc[t] = "lock"
    /\ UNCHANGED <<fetchVars, signalVars, clock, metaVars>>
    /\ lock[call[t].handle] = NoThread
    /\ lock' = [lock EXCEPT ![call[t].handle] = t]
    /\ tpc' = [tpc EXCEPT ![t] = "build"]
    /\ UNCHANGED <<words, txn, pending, call, outcome>>

\* an exception leaves both with-blocks of insert_words_batch: the connection
\* rolls back (rows is what stays committed), the lock is released
Raise(t, rows) ==
    /\ words' = rows
    /\ lock' = [lock EXCEPT ![call[t].handle] = NoThread]
    /\ txn' = IF txn = t THEN NoThread ELSE txn
    /\ pending' = IF txn = t THEN {} ELSE pending
    /\ IF call[t].op \in {"merge_with_database", "migrate_from_json"}
       THEN MergeExcept(t, rows)
       ELSE InsertRaises(t, rows)
    /\ call' = call

\* lines 126-136: the loop building word_data
BuildWordData(t) ==
    /\ tpc[t] = "build"
    /\ UNCHANGED <<fetchVars, signalVars, clock, metaVars>>
    /\ IF RaisesKeyError(call[t].batch)
       THEN Raise(t, words)
       ELSE /\ tpc' = [tpc EXCEPT ![t] = "exec"]
            /\ UNCHANGED <<words, lock, txn, pending, call, outcome>>

\* a connection in autocommit mode: the statements run before the failing one stay
ExecuteFailsAutocommit(rows, partial) == partial

\* the rows left committed when a statement of executemany fails: the with-block
\* of the connection rolls the whole transaction back (line 124)
ExecuteFails(rows, partial) == rows

\* lines 138-141: executemany opens the write transaction on the file (it waits
\* while another connection holds one) and runs the statements
Execute(t) ==
    /\ tpc[t] = "exec"
    /\ UNCHANGED <<fetchVars, signalVars, clock, metaVars>>
    /\ txn = NoThread
    /\ LET res == ExecuteMany(words, WordData(call[t].batch), 1)
       IN  IF res.ok
           THEN /\ txn' = t
                /\ pending' = res.rows
                /\ tpc' = [tpc EXCEPT ![t] = "commit"]
                /\ UNCHANGED <<words, lock, call, outcome>>
           ELSE Raise(t, ExecuteFails(words, res.rows))

\* sqlite3's busy timeout: the wait for another connection's write transaction
\* ran out and executemany raises OperationalError("database is locked")
BusyTimeout(t) ==
    /\ tpc[t] = "exec"
    /\ UNCHANGED <<fetchVars, signalVars, clock, metaVars>>
    /\ txn \notin {NoThread, t}
    /\ Raise(t, words)

\* lines 143-145: rowcount, commit, return; leaving the with-blocks releases the lock
Commit(t) ==
    /\ tpc[t] = "commit"
    /\ UNCHANGED <<fetchVars, signalVars, clock, metaVars>>
    /\ txn = t
    /\ words' = pending
    /\ txn' = NoThread
    /\ pending' = {}
    /\ lock' = [lock EXCEPT ![call[t].handle] = NoThread]
    /\ IF call[t].op \in {"merge_with_database", "migrate_from_json"}
       THEN /\ tpc' = [tpc EXCEPT ![t] =
                    IF call[t].op = "merge_with_database" THEN "read2" ELSE "meta"]
            /\ outcome' = [outcome EXCEPT ![t] =
                    [kind |-> "none", value |-> Len(call[t].batch), success |-> FALSE,
                     before |-> words, after |-> pending]]
       ELSE /\ tpc' = [tpc EXCEPT ![t] = "returned"]
            /\ outcome' = [outcome EXCEPT ![t] =
                    [kind |-> "return", value |-> Len(call[t].batch), success |-> TRUE,
                     before |-> words, after |-> pending]]
    /\ call' = call

\* merge_with_database lines 149-162: the count read after the upsert, then
\* return True; a failing read is caught and turned into False
MergeReadAfter(t, fails) ==
    /\ tpc[t] = "read2"
    /\ UNCHANGED <<fetchVars, signalVars, clock, metaVars>>
    /\ tpc' = [tpc EXCEPT ![t] = "returned"]
    /\ outcome' = [outcome EXCEPT ![t].kind = "return", ![t].success = ~fails]
    /\ UNCHANGED <<words, lock, txn, pending, call>>

\* the caller takes the result and the thread is free for its next call
Finish(t) ==
    /\ tpc[t] \in {"returned", "raised"}
    /\ UNCHANGED <<fetchVars, signalVars, clock, metaVars>>
    /\ tpc' = [tpc EXCEPT ![t] = "idle"]
    /\ call' = [call EXCEPT ![t] = NoCall]
    /\ outcome' = [outcome EXCEPT ![t] = NoOutcome]
    /\ UNCHANGED <<words, lock, txn, pending>>

\* the names a dict_matches mapping may carry: the registered ones and one the
\* registry does not know
MatchNames == RegisteredNames \cup {"unknown"}

\* every dict_matches mapping over those names (any name may be absent)
Memberships == UNION {[D -> BOOLEAN] : D \in SUBSET MatchNames}

\* _dict_matches_to_flags(m) is called (lines 101-110)
CallEncode(t, m) ==
    /\ tpc[t] = "idle"
    /\ UNCHANGED <<fetchVars, signalVars, clock, metaVars>>
    /\ call' = [call EXCEPT ![t] =
            [op |-> "_dict_matches_to_flags", handle |-> "db", batch |-> <<>>,
             length |-> 0, is_partial |-> FALSE, args |-> m]]
    /\ tpc' = [tpc EXCEPT ![t] = "encoded"]
    /\ outcome' = [outcome EXCEPT ![t] =
            [kind |-> "return", value |-> DictMatchesToFlags(m), success |-> TRUE,
             before |-> words, after |-> words, result |-> <<>>]]
    /\ UNCHANGED <<words, lock, txn, pending>>

\* _flags_to_dict_matches is called on the flags just computed (lines 112-116)
CallDecode(t) ==
    /\ tpc[t] = "encoded"
    /\ UNCHANGED <<fetchVars, signalVars, clock, metaVars>>
    /\ call' = [call EXCEPT ![t].op = "_flags_to_dict_matches"]
    /\ tpc' = [tpc EXCEPT ![t] = "returned"]
    /\ outcome' = [outcome EXCEPT ![t].result = FlagsToDictMatches(outcome[t].value)]
    /\ UNCHANGED <<words, lock, txn, pending>>

\* the flag codec applied to every mapping
NextCodec ==
    \/ \E m \in Memberships : CallEncode("main", m)
    \/ CallDecode("main")
    \/ Finish("main")

\* the dictionaries _init_database seeds (lines 78-81): (id, name, bit_position)
SeedDictionaries ==
    {[id |-> i, name |-> FlagNames[i], bit_position |-> i - 1] : i \in 1..Len(FlagNames)}

\* a plain INSERT into a table without the UNIQUE constraints, the id counted on
InsertRenumbered(rows, d) == rows \cup {[d EXCEPT !.id = Cardinality(rows) + 1]}

\* INSERT OR IGNORE INTO dictionaries (lines 82-83): a row that collides with a
\* stored one on id, name or bit_position is skipped
InsertOrIgnore(rows, d) ==
    IF \E r \in rows : r.id = d.id \/ r.name = d.name \/ r.bit_position = d.bit_position
    THEN rows ELSE rows \cup {d}

RECURSIVE InsertAllOrIgnore(_, _)
InsertAllOrIgnore(rows, ds) ==
    IF ds = {} THEN rows
    ELSE LET d == CHOOSE x \in ds : \A y \in ds : x.id <= y.id
         IN  InsertAllOrIgnore(InsertOrIgnore(rows, d), ds \ {d})

\* the store as _init_database leaves a new file
InitMeta ==
    /\ dictionaries = SeedDictionaries
    /\ metadata = [version |-> "2.0", created_at |-> 0]

\* the words table is dropped and created anew
CreateTableAfresh(rows) == {}

\* CREATE TABLE IF NOT EXISTS words (lines 46-56): an existing table is kept
CreateTableIfNotExists(rows) == rows

\* _init_database (lines 40-99): an OptimizedWordDatabase is constructed again
\* on the same file
InitDatabase ==
    /\ txn = NoThread
    /\ words' = CreateTableIfNotExists(words)
    /\ dictionaries' = InsertAllOrIgnore(dictionaries, SeedDictionaries)
    /\ metadata' = ("version" :> "2.0") @@ ("created_at" :> clock) @@ metadata
    /\ UNCHANGED <<threadVars, fetchVars, signalVars, clock>>

\* the rows of the metadata table that migrate_from_json writes (lines 274-277)
MigrationMetadata(m) ==
    [k \in DOMAIN m \cap {"migrated_from", "migration_date"} |-> m[k]]

\* migrate_from_json lines 249-268: the file is missing or cannot be parsed, or
\* it holds no word: False; else its words b go to insert_words_batch
CallMigrate(t, b, readable) ==
    /\ tpc[t] = "idle"
    /\ UNCHANGED <<fetchVars, signalVars, clock, metaVars>>
    /\ call' = [call EXCEPT ![t] =
            [op |-> "migrate_from_json", handle |-> "db", batch |-> b,
             length |-> 0, is_partial |-> FALSE,
             migration_before |-> MigrationMetadata(metadata)]]
    /\ IF ~readable \/ b = <<>>
       THEN /\ tpc' = [tpc EXCEPT ![t] = "returned"]
            /\ outcome' = [outcome EXCEPT ![t] =
                    [kind |-> "return", value |-> 0, success |-> FALSE,
                     before |-> words, after |-> words]]
       ELSE /\ tpc' = [tpc EXCEPT ![t] = "lock"]
            /\ outcome' = outcome
    /\ UNCHANGED <<words, lock, txn, pending>>

\* migrate_from_json lines 271-280: the metadata rows are written in a second
\* transaction and True is returned; a failure there is caught (lines 285-287)
MigrateMetadata(t, fails) ==
    /\ tpc[t] = "meta"
    /\ UNCHANGED <<fetchVars, signalVars, clock, dictionaries>>
    /\ tpc' = [tpc EXCEPT ![t] = "returned"]
    /\ outcome' = [outcome EXCEPT ![t].kind = "return", ![t].success = ~fails]
    /\ IF fails
       THEN metadata' = metadata
       ELSE /\ txn = NoThread
            /\ metadata' = ("migrated_from" :> "database.json")
                               @@ ("migration_date" :> clock) @@ metadata
    /\ UNCHANGED <<words, lock, txn, pending, call>>

\* time passes: CURRENT_TIMESTAMP (lines 53-54, 139-140) moves on
Tick ==
    /\ clock < MaxClock
    /\ clock' = clock + 1
    /\ UNCHANGED <<words, threadVars, fetchVars, signalVars, metaVars>>

\* the fetch side at rest: the store specifications leave it alone
NoDriver == [entry |-> "none", lengths |-> <<>>, max_words |-> 0, i |-> 0,
             pc |-> "done", results |-> <<>>]

\* one caller thread, every batch up to MaxBatch records
NextStore ==
    \/ \E h \in Handles, b \in Batches : CallInsert("fetch", h, b)
    \/ \E b \in Batches, L \in MergeLengths, p \in BOOLEAN : CallMerge("fetch", b, L, p)
    \/ \E fails \in BOOLEAN : MergeReadBefore("fetch", fails)
    \/ AcquireLock("fetch")
    \/ BuildWordData("fetch")
    \/ Execute("fetch")
    \/ Commit("fetch")
    \/ \E fails \in BOOLEAN : MergeReadAfter("fetch", fails)
    \/ Finish("fetch")
    \/ Tick

\* the GUI's two threads, each through either handle
NextThreads ==
    \E t \in Threads :
        \/ \E h \in Handles, b \in ThreadBatches : CallInsert(t, h, b)
        \/ \E b \in ThreadBatches : CallMerge(t, b, 2, TRUE)
        \/ \E fails \in BOOLEAN : MergeReadBefore(t, fails)
        \/ AcquireLock(t)
        \/ BuildWordData(t)
        \/ Execute(t)
        \/ BusyTimeout(t)
        \/ Commit(t)
        \/ \E fails \in BOOLEAN : MergeReadAfter(t, fails)
        \/ Finish(t)

-----------------------------------------------------------------------------
(* The remote search service and the fetch orchestrator *)

\* page size of the requests (fetch_page_size); the remote may serve a page
\* with fewer words than that
PageSize == 2

Lengths == {3, 4}

Word(w, p) == [word |-> w, points |-> p, dict_matches |-> [wordle |-> TRUE, wwf |-> FALSE]]

\* what the remote holds for each length, page by page, ordered by the service
RemotePages(L) ==
    IF L = 4
    THEN << <<Word("abcd", 10), Word("efgh", 7)>>,
            <<Word("ijkl", 9), Word("mnop", 3)>>,
            <<Word("qrst", 5), Word("uvwx", 1)>>,
            <<Word("yzab", 4), Word("cdef", 2)>> >>
    ELSE << <<Word("abc", 8)>>,
            <<Word("def", 6)>>,
            <<Word("ghi", 5), Word("jkl", 3)>>,
            <<Word("stu", 7), Word("vwx", 4)>> >>

RECURSIVE Concat(_, _)
\* the word lists of pages 1..n, one after the other
Concat(pages, n) == IF n = 0 THEN <<>> ELSE Concat(pages, n - 1) \o pages[n]

\* first_page["num_words"]: the words the remote declares for the length
NumWords(L) == Len(Concat(RemotePages(L), num_pages[L]))

Min(a, b) == IF a < b THEN a ELSE b

\* the handler is never consulted
ShouldExitNever == FALSE

\* WordManager._should_exit (lines 592-594)
ShouldExit == signal_handler /\ should_exit

\* merge_with_database as the fetch thread sees it end to end: nothing for an
\* empty batch, else the batch upsert; a store error is caught (lines 164-166)
MergeWithDatabase(rows, new_words) ==
    IF new_words = <<>> \/ RaisesKeyError(new_words) THEN rows
    ELSE LET res == ExecuteMany(rows, WordData(new_words), 1)
         IN  IF res.ok THEN res.rows ELSE ExecuteFails(rows, res.rows)

\* base_params (lines 223-229), as far as they tell the requests apart
BaseParams(L) == [length |-> L]

\* the page token is the page number
PageParamsOneBased(L, page_num) == [length |-> L, page_token |-> page_num]

\* page_params = base_params.copy(); page_params["page_token"] = page_num - 1
\* (lines 279-280, 470-471, 1607-1609)
PageParams(L, page_num) == [length |-> L, page_token |-> page_num - 1]

IdleTask ==
    [pc |-> "idle", kind |-> "none", all_words |-> <<>>, page_num |-> 0,
     total_pages |-> 0, max_words |-> 0, actual_pages_to_fetch |-> 0,
     pages_fetched |-> 0, requests |-> <<>>, sent |-> <<>>, failed |-> {},
     merges |-> <<>>,
     exit_at |-> [pc |-> "unset", page |-> 0]]

\* the position of every fetch at the moment the flag goes up
MarkExit(tasks) ==
    [L \in DOMAIN tasks |->
        IF tasks[L].exit_at.pc = "unset"
        THEN [tasks[L] EXCEPT !.exit_at = [pc |-> tasks[L].pc, page |-> tasks[L].page_num]]
        ELSE tasks[L]]

\* asyncio runs one coroutine at a time: a fetch at "loop" is between two awaits
NoneRunning == \A L \in Lengths : task[L].pc # "loop"

\* the event loop runs every task that is ready to start before it polls for
\* responses and timers
NoneReady == \A L \in Lengths : task[L].pc # "start"

\* a step of a fetch: st is [tk |-> the task record, rows |-> the table]
Merged(st, is_partial) ==
    [tk   |-> [st.tk EXCEPT !.merges =
                  Append(@, [words |-> st.tk.all_words, is_partial |-> is_partial])],
     rows |-> MergeWithDatabase(st.rows, st.tk.all_words)]

Returned(st) == [st EXCEPT !.tk.pc = "done"]

\* range(2, total_pages + 1) ends one page early
LastPageShort(total_pages) == total_pages - 1

\* the last page_num of range(2, total_pages + 1)
LastPage(total_pages) == total_pages

\* the slice taken from a page ignores the remaining slots
WordsToAddAll(n, slots) == n

\* words_to_add = min(len(page_words), remaining_slots) (lines 1567, 1630)
WordsToAdd(n, slots) == Min(n, slots)

\* the code after the page loop: fetch_all_words lines 318-325 (the same in
\* _fetch_single_length_with_progress, lines 522-529) and _fetch_with_limit
\* lines 1689-1706
AfterLoop(st) ==
    IF st.tk.kind = "_fetch_with_limit"
    THEN Returned(Merged(st, Len(st.tk.all_words) >= st.tk.max_words \/ ShouldExit))
    ELSE IF ShouldExit THEN Returned(st)
    ELSE Returned(Merged(st, FALSE))

Apply(L, st) ==
    /\ task' = [task EXCEPT ![L] = st.tk]
    /\ words' = st.rows

\* the first request is issued without a look at the flag
FetchBeginUnchecked(L) ==
    /\ task[L].pc = "start"
    /\ UNCHANGED <<threadVars, signalVars, clock, metaVars>>
    /\ NoneRunning
    /\ \A j \in 1..Len(driver.lengths) : \A k \in 1..Len(driver.lengths) :
          (driver.lengths[k] = L /\ j < k) => task[driver.lengths[j]].pc # "start"
    /\ partial_words' = L
    /\ task' = [task EXCEPT ![L].pc = "req1", ![L].requests = <<1>>,
                                  ![L].sent = <<BaseParams(L)>>]
    /\ UNCHANGED <<words, signal_handler, should_exit, exit_by, num_pages, driver>>

\* lines 231-240 (417-429, 1522-1536): the buffer is created and published as
\* partial_words, the flag is checked, the first request is issued
FetchBegin(L) ==
    /\ task[L].pc = "start"
    /\ UNCHANGED <<threadVars, signalVars, clock, metaVars>>
    /\ NoneRunning
    \* tasks created by create_task start in creation order
    /\ \A j \in 1..Len(driver.lengths) : \A k \in 1..Len(driver.lengths) :
          (driver.lengths[k] = L /\ j < k) => task[driver.lengths[j]].pc # "start"
    /\ partial_words' = L
    /\ IF ShouldExit
       THEN task' = [task EXCEPT ![L].pc = "done"]
       ELSE task' = [task EXCEPT ![L].pc = "req1", ![L].requests = <<1>>,
                                  ![L].sent = <<BaseParams(L)>>]
    /\ UNCHANGED <<words, signal_handler, should_exit, exit_by, num_pages, driver>>

\* the outer except clause (lines 334-340, 543-549, 1718-1726): the handler's
\* flag is set by the fetch itself, a non-empty buffer is merged as partial
FirstRequestFails(L) ==
    LET failed == [task EXCEPT ![L].failed = @ \cup {1}]
        marked == IF signal_handler /\ ~should_exit THEN MarkExit(failed) ELSE failed
        st     == [tk |-> marked[L], rows |-> words]
        res    == Returned(IF st.tk.all_words # <<>> THEN Merged(st, TRUE) ELSE st)
    IN  /\ task' = [marked EXCEPT ![L] = res.tk]
        /\ words' = res.rows
        /\ should_exit' = (signal_handler \/ should_exit)
        /\ exit_by' = IF signal_handler /\ ~should_exit THEN "fetch" ELSE exit_by

\* an empty answer is merged like a complete fetch
NoWordPagesMerged(st) == Returned(Merged(st, FALSE))

\* if not word_pages: return all_words (lines 244-247, 433-435, 1540-1542)
NoWordPages(st) == Returned(st)

\* lines 240-268 (429-459, 1536-1591): the first response
FirstResponse(L, ok) ==
    /\ task[L].pc = "req1"
    /\ UNCHANGED <<threadVars, signalVars, clock, metaVars>>
    /\ NoneRunning
    /\ NoneReady
    /\ IF ~ok THEN FirstRequestFails(L)
       ELSE /\ UNCHANGED <<should_exit, exit_by>>
            /\ IF num_pages[L] = 0
               THEN Apply(L, NoWordPages([tk |-> task[L], rows |-> words]))
               ELSE LET first == RemotePages(L)[1]
                        limited == task[L].kind = "_fetch_with_limit"
                        cap == task[L].max_words
                        n == IF limited THEN WordsToAdd(Len(first), cap) ELSE Len(first)
                        tk == [task[L] EXCEPT
                                 !.total_pages = num_pages[L],
                                 !.actual_pages_to_fetch =
                                     IF limited /\ cap < NumWords(L)
                                     THEN Min((cap + PageSize - 1) \div PageSize, num_pages[L])
                                     ELSE num_pages[L],
                                 !.all_words = SubSeq(first, 1, n),
                                 !.page_num = 2,
                                 !.pages_fetched = 1]
                        st == [tk |-> tk, rows |-> words]
                    IN  IF limited /\ Len(tk.all_words) >= cap
                        THEN Apply(L, Returned(Merged(st, TRUE)))
                        ELSE IF ShouldExit
                        THEN Apply(L, Returned(Merged(st, TRUE)))
                        ELSE Apply(L, [st EXCEPT !.tk.pc = "loop"])
    /\ UNCHANGED <<signal_handler, partial_words, num_pages, driver>>

\* the head of the page loop (lines 271-284, 462-480, 1595-1617): the range is
\* exhausted, or the flag is seen and the buffer merged as partial, or the
\* request for page_num goes out
LoopHead(L) ==
    /\ task[L].pc = "loop"
    /\ UNCHANGED <<threadVars, signalVars, clock, metaVars>>
    /\ LET st == [tk |-> task[L], rows |-> words]
       IN  IF task[L].page_num > LastPage(task[L].total_pages)
           THEN Apply(L, AfterLoop(st))
           ELSE IF ShouldExit
           THEN Apply(L, AfterLoop(Merged(st, TRUE)))
           ELSE Apply(L, [st EXCEPT !.tk.pc = "req",
                                    !.tk.requests = Append(@, task[L].page_num),
                                    !.tk.sent = Append(@, PageParams(L, task[L].page_num))])
    /\ UNCHANGED <<signal_handler, should_exit, exit_by, partial_words, num_pages, driver>>

\* a failed page request ends the page loop
PageResponseAborts(L, ok) ==
    /\ task[L].pc = "req"
    /\ UNCHANGED <<threadVars, signalVars, clock, metaVars>>
    /\ NoneRunning
    /\ NoneReady
    /\ LET tk0 == task[L]
           limited == tk0.kind = "_fetch_with_limit"
           page_words == RemotePages(L)[tk0.page_num]
           n == IF limited
                THEN WordsToAdd(Len(page_words), tk0.max_words - Len(tk0.all_words))
                ELSE Len(page_words)
           got == [tk0 EXCEPT !.all_words = @ \o SubSeq(page_words, 1, n),
                              !.pages_fetched = @ + 1]
           bad == [tk0 EXCEPT !.failed = @ \cup {tk0.page_num}]
       IN  IF ok
           THEN IF limited /\ (Len(got.all_words) >= got.max_words
                                \/ got.pages_fetched >= got.actual_pages_to_fetch)
                THEN Apply(L, AfterLoop([tk |-> got, rows |-> words]))
                ELSE IF ShouldExit
                THEN Apply(L, [tk |-> [got EXCEPT !.pc = "loop", !.page_num = @ + 1],
                               rows |-> words])
                ELSE Apply(L, [tk |-> [got EXCEPT !.pc = "sleep"], rows |-> words])
           ELSE IF ShouldExit
                THEN Apply(L, AfterLoop(Merged([tk |-> bad, rows |-> words], TRUE)))
                ELSE Apply(L, AfterLoop([tk |-> bad, rows |-> words]))
    /\ UNCHANGED <<signal_handler, should_exit, exit_by, partial_words, num_pages, driver>>

\* a page request that fails under cancellation ends the loop without a merge
PageResponseDropsBuffer(L, ok) ==
    /\ task[L].pc = "req"
    /\ UNCHANGED <<threadVars, signalVars, clock, metaVars>>
    /\ NoneRunning
    /\ NoneReady
    /\ LET tk0 == task[L]
           limited == tk0.kind = "_fetch_with_limit"
           page_words == RemotePages(L)[tk0.page_num]
           n == IF limited
                THEN WordsToAdd(Len(page_words), tk0.max_words - Len(tk0.all_words))
                ELSE Len(page_words)
           got == [tk0 EXCEPT !.all_words = @ \o SubSeq(page_words, 1, n),
                              !.pages_fetched = @ + 1]
           bad == [tk0 EXCEPT !.failed = @ \cup {tk0.page_num}]
       IN  IF ok
           THEN IF limited /\ (Len(got.all_words) >= got.max_words
                                \/ got.pages_fetched >= got.actual_pages_to_fetch)
                THEN Apply(L, AfterLoop([tk |-> got, rows |-> words]))
                ELSE IF ShouldExit
                THEN Apply(L, [tk |-> [got EXCEPT !.pc = "loop", !.page_num = @ + 1],
                               rows |-> words])
                ELSE Apply(L, [tk |-> [got EXCEPT !.pc = "sleep"], rows |-> words])
           ELSE IF ShouldExit
                THEN Apply(L, AfterLoop([tk |-> bad, rows |-> words]))
                ELSE Apply(L, [tk |-> [bad EXCEPT !.pc = "loop", !.page_num = @ + 1],
                               rows |-> words])
    /\ UNCHANGED <<signal_handler, should_exit, exit_by, partial_words, num_pages, driver>>

\* lines 284-316 (480-520, 1617-1687): the response for page_num, or its failure
PageResponse(L, ok) ==
    /\ task[L].pc = "req"
    /\ UNCHANGED <<threadVars, signalVars, clock, metaVars>>
    /\ NoneRunning
    /\ NoneReady
    /\ LET tk0 == task[L]
           limited == tk0.kind = "_fetch_with_limit"
           page_words == RemotePages(L)[tk0.page_num]
           n == IF limited
                THEN WordsToAdd(Len(page_words), tk0.max_words - Len(tk0.all_words))
                ELSE Len(page_words)
           got == [tk0 EXCEPT !.all_words = @ \o SubSeq(page_words, 1, n),
                              !.pages_fetched = @ + 1]
           bad == [tk0 EXCEPT !.failed = @ \cup {tk0.page_num}]
       IN  IF ok
           THEN IF limited /\ (Len(got.all_words) >= got.max_words
                                \/ got.pages_fetched >= got.actual_pages_to_fetch)
                THEN Apply(L, AfterLoop([tk |-> got, rows |-> words]))
                ELSE IF ShouldExit
                THEN Apply(L, [tk |-> [got EXCEPT !.pc = "loop", !.page_num = @ + 1],
                               rows |-> words])
                ELSE Apply(L, [tk |-> [got EXCEPT !.pc = "sleep"], rows |-> words])
           ELSE IF ShouldExit
                THEN Apply(L, AfterLoop(Merged([tk |-> bad, rows |-> words], TRUE)))
                ELSE Apply(L, [tk |-> [bad EXCEPT !.pc = "loop", !.page_num = @ + 1],
                               rows |-> words])
    /\ UNCHANGED <<signal_handler, should_exit, exit_by, partial_words, num_pages, driver>>

\* after the sleep the loop asks for the same page again
SleepDoneRepeats(L) ==
    /\ task[L].pc = "sleep"
    /\ UNCHANGED <<threadVars, signalVars, clock, metaVars>>
    /\ task' = [task EXCEPT ![L].pc = "loop"]
    /\ UNCHANGED <<words, signal_handler, should_exit, exit_by, partial_words,
                   num_pages, driver>>

\* await asyncio.sleep(0.1) is over (lines 301, 504, 1667)
SleepDone(L) ==
    /\ task[L].pc = "sleep"
    /\ UNCHANGED <<threadVars, signalVars, clock, metaVars>>
    /\ NoneRunning
    /\ NoneReady
    /\ task' = [task EXCEPT ![L].pc = "loop", ![L].page_num = @ + 1]
    /\ UNCHANGED <<words, signal_handler, should_exit, exit_by, partial_words,
                   num_pages, driver>>

\* set_shutdown_callback (lines 12-14)
SetShutdownCallback ==
    /\ signal_handler
    /\ ~shutdown_callback
    /\ driver.pc # "done"
    /\ shutdown_callback' = TRUE
    /\ UNCHANGED <<words, threadVars, fetchVars, callback_calls, clock, metaVars>>

\* SignalHandler.signal_handler (lines 16-24) on SIGINT/SIGTERM: the flag goes
\* up and the callback, when one is set, is called
Signal ==
    /\ signal_handler
    /\ driver.pc # "done"
    /\ callback_calls < MaxSignals
    /\ should_exit' = TRUE
    /\ exit_by' = IF should_exit THEN exit_by ELSE "external"
    /\ task' = IF should_exit THEN task ELSE MarkExit(task)
    /\ callback_calls' = IF shutdown_callback THEN callback_calls + 1 ELSE callback_calls
    /\ UNCHANGED <<words, signal_handler, partial_words, num_pages, driver>>
    /\ UNCHANGED <<threadVars, shutdown_callback, clock, metaVars>>

\* a collaborator raises the flag itself: the GUI's cancel button,
\* tests/demo_partial_exit.auto_interrupt
SetExit ==
    /\ signal_handler
    /\ UNCHANGED <<threadVars, signalVars, clock, metaVars>>
    /\ ~should_exit
    /\ driver.pc # "done"
    /\ should_exit' = TRUE
    /\ exit_by' = "external"
    /\ task' = MarkExit(task)
    /\ UNCHANGED <<words, signal_handler, partial_words, num_pages, driver>>

-----------------------------------------------------------------------------
(* The entry points *)

\* the single-length coroutine an entry point runs for each length
KindOf(entry) ==
    IF entry = "fetch_multiple_lengths_sequential" THEN "_fetch_single_length_with_progress"
    ELSE IF entry = "fetch_multiple_lengths_concurrent" THEN "fetch_all_words"
    ELSE entry

\* the calls a behaviour may start with
Calls ==
    {[entry |-> e, lengths |-> <<L>>, max_words |-> 0, i |-> 0, pc |-> "init",
      results |-> <<>>] :
        e \in {"fetch_all_words", "_fetch_single_length_with_progress",
               "_fetch_unlimited_with_dictionary"}, L \in Lengths}
    \cup
    {[entry |-> "_fetch_with_limit", lengths |-> <<L>>, max_words |-> c, i |-> 0,
      pc |-> "init", results |-> <<>>] : L \in Lengths, c \in 1..MaxCap}
    \cup
    {[entry |-> e, lengths |-> ls, max_words |-> 0, i |-> 0, pc |-> "init",
      results |-> <<>>] :
        e \in {"fetch_multiple_lengths_sequential", "fetch_multiple_lengths_concurrent"},
        ls \in {<<3, 4>>, <<4, 3>>}}

Started(entry, max_words) ==
    [IdleTask EXCEPT !.pc = "start", !.kind = KindOf(entry), !.max_words = max_words]

InList(L, ls) == \E j \in 1..Len(ls) : ls[j] = L

\* the entry point is called: a single-length fetch or the sequential policy
\* starts the coroutine of its first length, the concurrent policy creates one
\* task per length (lines 348-352)
DriverStart ==
    /\ driver.pc = "init"
    /\ UNCHANGED <<threadVars, signalVars, clock, metaVars>>
    /\ driver' = [driver EXCEPT !.pc = "await", !.i = 1]
    /\ task' = [L \in Lengths |->
                  IF /\ InList(L, driver.lengths)
                     /\ \/ driver.entry = "fetch_multiple_lengths_concurrent"
                        \/ driver.lengths[1] = L
                  THEN [Started(driver.entry, driver.max_words) EXCEPT
                            !.exit_at = task[L].exit_at]
                  ELSE task[L]]
    /\ UNCHANGED <<words, signal_handler, should_exit, exit_by, partial_words, num_pages>>

\* the awaited fetch has returned: results[length] = words (lines 357-358,
\* 381-392); the sequential policy then sleeps one second before the next length
DriverCollect ==
    /\ driver.pc = "await"
    /\ UNCHANGED <<threadVars, signalVars, clock, metaVars>>
    /\ NoneRunning
    /\ LET L == driver.lengths[driver.i]
       IN  /\ task[L].pc = "done"
           /\ driver' = [driver EXCEPT
                  !.results = (L :> task[L].all_words) @@ @,
                  !.pc = IF driver.i = Len(driver.lengths) THEN "done"
                         ELSE IF driver.entry = "fetch_multiple_lengths_sequential"
                         THEN "sleep" ELSE "await",
                  !.i = IF driver.i < Len(driver.lengths)
                           /\ driver.entry = "fetch_multiple_lengths_concurrent"
                        THEN @ + 1 ELSE @]
    /\ UNCHANGED <<words, signal_handler, should_exit, exit_by, partial_words,
                   num_pages, task>>

\* await asyncio.sleep(1.0) is over (line 392): the next length's fetch is called
DriverNextLength ==
    /\ driver.pc = "sleep"
    /\ UNCHANGED <<threadVars, signalVars, clock, metaVars>>
    /\ LET L == driver.lengths[driver.i + 1]
       IN  task' = [task EXCEPT ![L] =
                [Started(driver.entry, 0) EXCEPT !.exit_at = task[L].exit_at]]
    /\ driver' = [driver EXCEPT !.pc = "await", !.i = @ + 1]
    /\ UNCHANGED <<words, signal_handler, should_exit, exit_by, partial_words, num_pages>>

-----------------------------------------------------------------------------
(* The read operations of OptimizedWordDatabase *)

\* the characters of the strings that occur as words, patterns and substrings
Chars(str) ==
    CASE str = ""    -> <<>>
      [] str = "b"   -> <<"b">>
      [] str = "B"   -> <<"B">>
      [] str = "ab"  -> <<"a", "b">>
      [] str = "AB"  -> <<"A", "B">>
      [] str = "ba"  -> <<"b", "a">>
      [] str = "abc" -> <<"a", "b", "c">>
      [] str = "cab" -> <<"c", "a", "b">>
      [] str = "a_"  -> <<"a", "_">>
      [] str = "a%"  -> <<"a", "%">>
      [] str = "a?"  -> <<"a", "?">>
      [] str = "a*"  -> <<"a", "*">>
      [] str = "%b"  -> <<"%", "b">>

\* SQLite's LIKE folds ASCII case
Lower(c) == IF c = "A" THEN "a" ELSE IF c = "B" THEN "b" ELSE c

\* value LIKE pattern, on character sequences: % matches any run of
\* characters, _ exactly one, every other character itself up to ASCII case
RECURSIVE Like(_, _)
Like(pat, val) ==
    IF pat = <<>> THEN val = <<>>
    ELSE IF Head(pat) = "%"
    THEN Like(Tail(pat), val) \/ (val # <<>> /\ Like(pat, Tail(val)))
    ELSE /\ val # <<>>
         /\ Head(pat) = "_" \/ Lower(Head(pat)) = Lower(Head(val))
         /\ Like(Tail(pat), Tail(val))

\* the SELECT has no ORDER BY
OrderedAnyhow(res) == TRUE

\* ORDER BY points DESC
OrderedByPointsDesc(res) ==
    \A i, j \in 1..Len(res) : i < j => res[i].points >= res[j].points

\* LIMIT n cuts the rows before they are sorted
SelectRowsUnranked(S, n) ==
    { res \in [1..n -> S] :
        /\ \A i, j \in 1..n : i < j => res[i] # res[j]
        /\ OrderedByPointsDesc(res) }

\* the row sequences SELECT ... ORDER BY points DESC LIMIT n may return over
\* the rows S that pass the WHERE clause (ties come in any order)
SelectRows(S, n) ==
    { res \in [1..n -> S] :
        /\ \A i, j \in 1..n : i < j => res[i] # res[j]
        /\ OrderedByPointsDesc(res)
        /\ \A r \in S : (\A i \in 1..n : res[i] # r) =>
                            \A i \in 1..n : res[i].points >= r.points }

\* _row_to_word_dict (lines 309-316)
RowToWordDict(r) ==
    [word |-> r.word, points |-> r.points, wildcards |-> <<>>,
     dict_matches |-> FlagsToDictMatches(r.dict_flags)]

\* [self._row_to_word_dict(row) for row in cursor.fetchall()]
WordDicts(res) == [i \in 1..Len(res) |-> RowToWordDict(res[i])]

\* a keyword argument the caller left out is not in the call record: that is
\* the parameter's default None
Given(q, key) == key \in DOMAIN q

\* if limit: (line 154): None and 0 add no LIMIT clause
LimitOf(q, S) ==
    IF Given(q, "limit") /\ q.limit # 0 THEN Min(q.limit, Cardinality(S))
    ELSE Cardinality(S)

\* if min_points is not None: (line 185)
MinPointsGiven(q) == Given(q, "min_points")

\* a bound of 0 counts as no bound
MaxPointsGivenTruthy(q) == Given(q, "max_points") /\ q.max_points # 0

\* if max_points is not None: (line 188)
MaxPointsGiven(q) == Given(q, "max_points")

\* the WHERE clause search_words builds (lines 179-193)
SearchWhere(q, r) ==
    /\ (Given(q, "pattern") /\ q.pattern # "")
          => Like(Chars(q.pattern), Chars(r.word))
    /\ MinPointsGiven(q) => r.points >= q.min_points
    /\ MaxPointsGiven(q) => r.points <= q.max_points
    /\ (Given(q, "contains") /\ q.contains # "")
          => Like(<<"%">> \o Chars(q.contains) \o <<"%">>, Chars(r.word))

\* GROUP BY length ORDER BY length DESC
LengthDistributionDescending(rows) ==
    LET Ls == {r.length : r \in rows}
        n == Cardinality(Ls)
        s == CHOOSE f \in [1..n -> Ls] : \A i, j \in 1..n : i < j => f[i] > f[j]
    IN  [i \in 1..n |-> [length |-> s[i], count |-> Cardinality(RowsOfLength(rows, s[i]))]]

\* get_length_distribution (lines 241-247): SELECT length, COUNT(*) ... GROUP BY
\* length ORDER BY length, and the dict built from the rows in that order: its
\* items, in the order the dict keeps them
LengthDistributionItems(rows) ==
    LET Ls == {r.length : r \in rows}
        n == Cardinality(Ls)
        s == CHOOSE f \in [1..n -> Ls] : \A i, j \in 1..n : i < j => f[i] < f[j]
    IN  [i \in 1..n |-> [length |-> s[i], count |-> Cardinality(RowsOfLength(rows, s[i]))]]

\* the rows a read selects from
Selected(q, rows) ==
    CASE q.op = "get_words_by_length" -> RowsOfLength(rows, q.length)
      [] q.op = "get_top_words" ->
            IF Given(q, "length") THEN RowsOfLength(rows, q.length) ELSE rows
      [] q.op = "search_words" -> {r \in rows : SearchWhere(q, r)}
      [] q.op = "get_statistics" ->
            IF Given(q, "length") THEN RowsOfLength(rows, q.length) ELSE rows
      [] OTHER -> rows

\* every value the read q may return over the committed rows
\* (get_words_by_length 147-159, get_top_words 161-173, search_words 175-197,
\* get_length_distribution 241-247)
ReadResults(q, rows) ==
    LET S == Selected(q, rows)
    IN  CASE q.op = "get_words_by_length" ->
                {WordDicts(res) : res \in SelectRows(S, LimitOf(q, S))}
          [] q.op = "get_top_words" ->
                {WordDicts(res) : res \in SelectRows(S, Min(q.limit, Cardinality(S)))}
          [] q.op = "search_words" ->
                {WordDicts(res) : res \in SelectRows(S, Cardinality(S))}
          [] q.op = "get_length_distribution" -> {LengthDistributionItems(rows)}

RECURSIVE SumPoints(_)
SumPoints(S) ==
    IF S = {} THEN 0
    ELSE LET r == CHOOSE x \in S : TRUE IN r.points + SumPoints(S \ {r})

\* the first SELECT of get_statistics (lines 204-219): COUNT, AVG, MAX, MIN and
\* SUM over the selected rows; over no rows the aggregates but COUNT are NULL.
\* avg_points is kept in hundredths, rounded as round(avg, 2) rounds it
Aggregates(S) ==
    IF S = {}
    THEN [total_words |-> 0, avg_points |-> NULL, max_points |-> NULL,
          min_points |-> NULL, total_points |-> NULL]
    ELSE [total_words  |-> Cardinality(S),
          avg_points   |-> (200 * SumPoints(S) + Cardinality(S)) \div (2 * Cardinality(S)),
          max_points   |-> CHOOSE m \in {r.points : r \in S} :
                                \A r \in S : r.points <= m,
          min_points   |-> CHOOSE m \in {r.points : r \in S} :
                                \A r \in S : r.points >= m,
          total_points |-> SumPoints(S)]

\* value or 0 (lines 234-237)
OrZero(v) == IF v = NULL THEN 0 ELSE v

\* the second SELECT leaves out AND points = ?
HighestWordsAny(S, max_points) ==
    IF S = {} THEN {""} ELSE {r.word : r \in S}

\* the second SELECT of get_statistics (lines 222-230): a word of the selected
\* rows whose points equal max_points, LIMIT 1; '' when there is none
HighestWords(S, max_points) ==
    LET best == {r.word : r \in {x \in S : x.points = max_points}}
    IN  IF max_points = NULL \/ best = {} THEN {""} ELSE best

\* a read wrapped in with self._lock
ReadGuardLocked(h) == lock[h] = NoThread

\* the reads take the connection only: no with self._lock (lines 149, 163,
\* 177, 201, 243)
ReadGuard(h) == TRUE

\* a read is called with the arguments of q; the handle locks that are held
\* at this moment are kept with the call
CallRead(t, q) ==
    /\ tpc[t] = "idle"
    /\ UNCHANGED <<fetchVars, signalVars, clock, metaVars>>
    /\ call' = [call EXCEPT ![t] =
            q @@ [batch |-> <<>>, is_partial |-> FALSE,
                  held_at_call |-> {h \in Handles : lock[h] # NoThread}]]
    /\ tpc' = [tpc EXCEPT ![t] = "reading"]
    /\ outcome' = [outcome EXCEPT ![t] = NoOutcome]
    /\ UNCHANGED <<words, lock, txn, pending>>

\* the SELECT of the read runs on the committed rows and the read returns
\* (get_statistics goes on to its second SELECT)
Select(t) ==
    /\ tpc[t] = "reading"
    /\ UNCHANGED <<fetchVars, signalVars, clock, metaVars>>
    /\ ReadGuard(call[t].handle)
    /\ IF call[t].op = "get_statistics"
       THEN /\ tpc' = [tpc EXCEPT ![t] = "reading2"]
            /\ outcome' = [outcome EXCEPT ![t] =
                    [kind |-> "none", value |-> 0, success |-> FALSE,
                     before |-> words, after |-> words,
                     result |-> Aggregates(Selected(call[t], words))]]
       ELSE /\ tpc' = [tpc EXCEPT ![t] = "returned"]
            /\ \E res \in ReadResults(call[t], words) :
                  outcome' = [outcome EXCEPT ![t] =
                      [kind |-> "return", value |-> 0, success |-> TRUE,
                       before |-> words, after |-> words, result |-> res,
                       held_at_return |-> {h \in Handles : lock[h] # NoThread}]]
    /\ UNCHANGED <<words, lock, txn, pending, call>>

\* get_statistics lines 221-239: the second SELECT and the returned dict
SelectHighestWord(t) ==
    /\ tpc[t] = "reading2"
    /\ UNCHANGED <<fetchVars, signalVars, clock, metaVars>>
    /\ ReadGuard(call[t].handle)
    /\ LET row == outcome[t].result
       IN  \E w \in HighestWords(Selected(call[t], words), row.max_points) :
              outcome' = [outcome EXCEPT ![t] =
                  [kind |-> "return", value |-> 0, success |-> TRUE,
                   before |-> outcome[t].before, after |-> words,
                   result |-> [total_words    |-> row.total_words,
                               average_points |-> OrZero(row.avg_points),
                               highest_points |-> OrZero(row.max_points),
                               lowest_points  |-> OrZero(row.min_points),
                               total_points   |-> OrZero(row.total_points),
                               highest_word   |-> w],
                   held_at_return |-> {h \in Handles : lock[h] # NoThread}]]
    /\ tpc' = [tpc EXCEPT ![t] = "returned"]
    /\ UNCHANGED <<words, lock, txn, pending, call>>

\* the patterns and substrings handed to search_words
Patterns == {"", "ab", "AB", "a_", "a%", "a?", "a*", "%b"}
Substrings == {"", "b", "B"}
PointBounds == {0, 3}

\* each optional argument: left out, or given one of its values
Optional(key, values) == {<<>>} \cup {key :> v : v \in values}

SearchCalls ==
    {[op |-> "search_words", handle |-> "db"] @@ a @@ b @@ c @@ d :
        a \in Optional("pattern", Patterns),
        b \in Optional("min_points", PointBounds),
        c \in Optional("max_points", PointBounds),
        d \in Optional("contains", Substrings)}

ReadLengths == {2, 3, 4}

\* the read calls of the query specification
Queries ==
    SearchCalls
    \cup {[op |-> "get_words_by_length", handle |-> "db", length |-> L] @@ a :
            L \in ReadLengths, a \in Optional("limit", {0, 1, 2})}
    \cup {[op |-> "get_top_words", handle |-> "db", limit |-> n] @@ a :
            n \in {1, 3, 10}, a \in Optional("length", ReadLengths)}
    \cup {[op |-> "get_statistics", handle |-> "db"] @@ a :
            a \in Optional("length", ReadLengths)}
    \cup {[op |-> "get_length_distribution", handle |-> "db"]}

\* the rows the query specification draws its store from: two words of length
\* 2 with equal points, a word with 0 points, a word with the most points
QueryRows ==
    {StoredRow(WordTuple(w)) :
        w \in {Word("ab", 3), Word("ba", 3), Word("abc", 0), Word("cab", 5)}}

NextQueries ==
    \/ \E q \in Queries : CallRead("main", q)
    \/ Select("main")
    \/ SelectHighestWord("main")
    \/ Finish("main")

-----------------------------------------------------------------------------
(* Initial states and specifications *)

\* the table a fetch may find: empty, or holding a first-page word with old points
InitialStores == { {}, {StoredRow(WordTuple(Word("abcd", 1)))} }

Init ==
    /\ clock = 0
    /\ words \in InitialStores
    /\ InitThreads
    /\ shutdown_callback = FALSE
    /\ callback_calls = 0
    /\ InitMeta
    /\ signal_handler \in BOOLEAN
    /\ should_exit = FALSE
    /\ exit_by = "none"
    /\ partial_words = 0
    /\ driver \in Calls
    /\ num_pages \in [Lengths -> 0..MaxPages]
    /\ \A L \in Lengths : ~InList(L, driver.lengths) => num_pages[L] = 0
    /\ task = [L \in Lengths |-> IdleTask]

Next ==
    \/ DriverStart
    \/ \E L \in Lengths : FetchBegin(L)
    \/ \E L \in Lengths, ok \in BOOLEAN : FirstResponse(L, ok)
    \/ \E L \in Lengths : LoopHead(L)
    \/ \E L \in Lengths, ok \in BOOLEAN : PageResponse(L, ok)
    \/ \E L \in Lengths : SleepDone(L)
    \/ DriverCollect
    \/ DriverNextLength
    \/ SetExit
    \/ SetShutdownCallback
    \/ Signal

\* the fetch orchestrator against the remote, one entry point per behaviour
Spec == Init /\ [][Next]_vars

\* the steps the asyncio event loop takes on its own: a coroutine that can
\* run is run, a request that is out returns or raises, a sleep ends
EventLoopStep ==
    \/ DriverStart
    \/ \E L \in Lengths : FetchBegin(L)
    \/ \E L \in Lengths, ok \in BOOLEAN : FirstResponse(L, ok)
    \/ \E L \in Lengths : LoopHead(L)
    \/ \E L \in Lengths, ok \in BOOLEAN : PageResponse(L, ok)
    \/ \E L \in Lengths : SleepDone(L)
    \/ DriverCollect

\* the single-length entry points
SingleLengthCalls == {c \in Calls : Len(c.lengths) = 1}

\* one call of a single-length entry point on an empty table
InitFair ==
    /\ clock = 0
    /\ words = {}
    /\ InitThreads
    /\ shutdown_callback = FALSE
    /\ callback_calls = 0
    /\ InitMeta
    /\ signal_handler \in BOOLEAN
    /\ should_exit = FALSE
    /\ exit_by = "none"
    /\ partial_words = 0
    /\ driver \in SingleLengthCalls
    /\ num_pages \in [Lengths -> 0..MaxPages]
    /\ \A L \in Lengths : ~InList(L, driver.lengths) => num_pages[L] = 0
    /\ task = [L \in Lengths |-> IdleTask]

NextFair ==
    \/ DriverStart
    \/ \E L \in Lengths : FetchBegin(L)
    \/ \E L \in Lengths, ok \in BOOLEAN : FirstResponse(L, ok)
    \/ \E L \in Lengths : LoopHead(L)
    \/ \E L \in Lengths, ok \in BOOLEAN : PageResponse(L, ok)
    \/ \E L \in Lengths : SleepDone(L)
    \/ DriverCollect
    \/ SetExit
    \/ Signal

\* a single-length fetch with an event loop that keeps running and a remote
\* that answers every request, with a response or an error; nothing obliges
\* anybody to request cancellation
SpecFair == InitFair /\ [][NextFair]_vars /\ WF_vars(EventLoopStep)

InitStore ==
    /\ clock = 0
    /\ words = {}
    /\ InitThreads
    /\ shutdown_callback = FALSE
    /\ callback_calls = 0
    /\ InitMeta
    /\ signal_handler = FALSE
    /\ should_exit = FALSE
    /\ exit_by = "none"
    /\ partial_words = 0
    /\ num_pages = [L \in Lengths |-> 0]
    /\ task = [L \in Lengths |-> IdleTask]
    /\ driver = NoDriver

\* the store and the merge pipeline called by one thread
SpecStore == InitStore /\ [][NextStore]_vars

\* the store and the merge pipeline called by two threads
SpecThreads == InitStore /\ [][NextThreads]_vars

\* upserts, merges, legacy imports and re-initializations by one thread
NextLifecycle ==
    \/ \E h \in Handles, b \in ThreadBatches : CallInsert("fetch", h, b)
    \/ \E b \in ThreadBatches, L \in MergeLengths, p \in BOOLEAN :
          CallMerge("fetch", b, L, p)
    \/ \E b \in ThreadBatches, readable \in BOOLEAN : CallMigrate("fetch", b, readable)
    \/ \E fails \in BOOLEAN : MergeReadBefore("fetch", fails)
    \/ AcquireLock("fetch")
    \/ BuildWordData("fetch")
    \/ Execute("fetch")
    \/ Commit("fetch")
    \/ \E fails \in BOOLEAN : MergeReadAfter("fetch", fails)
    \/ \E fails \in BOOLEAN : MigrateMetadata("fetch", fails)
    \/ Finish("fetch")
    \/ InitDatabase
    \/ Tick

\* the store through upserts, merges, legacy imports and re-initializations
SpecLifecycle == InitStore /\ [][NextLifecycle]_vars

\* the dictionary-flag codec on its own
SpecCodec == InitStore /\ [][NextCodec]_vars

InitQueries ==
    /\ clock = 0
    /\ words \in SUBSET QueryRows
    /\ InitThreads
    /\ signal_handler = FALSE
    /\ should_exit = FALSE
    /\ exit_by = "none"
    /\ partial_words = 0
    /\ num_pages = [L \in Lengths |-> 0]
    /\ task = [L \in Lengths |-> IdleTask]
    /\ driver = NoDriver
    /\ shutdown_callback = FALSE
    /\ callback_calls = 0
    /\ InitMeta

\* the read operations over a fixed store content
SpecQueries == InitQueries /\ [][NextQueries]_vars

\* the reads the GUI thread makes while the fetch thread writes: one of each
\* operation (get_words_by_length also through the adapter's store, as
\* DatabaseAdapter.extract_words_from_database does at line 339)
ReaderQueries ==
    {[op |-> "get_words_by_length", handle |-> h, length |-> 2] : h \in Handles}
    \cup {[op |-> "get_top_words", handle |-> "db", limit |-> 10],
          [op |-> "search_words", handle |-> "db", min_points |-> 0],
          [op |-> "get_statistics", handle |-> "db"],
          [op |-> "get_length_distribution", handle |-> "db"]}

\* thread "fetch" writes through either handle while thread "main" reads
NextReads ==
    \/ \E h \in Handles, b \in ThreadBatches : CallInsert("fetch", h, b)
    \/ AcquireLock("fetch")
    \/ BuildWordData("fetch")
    \/ Execute("fetch")
    \/ Commit("fetch")
    \/ Finish("fetch")
    \/ \E q \in ReaderQueries : CallRead("main", q)
    \/ Select("main")
    \/ SelectHighestWord("main")
    \/ Finish("main")

\* reads of one thread against writes of another
SpecReads == InitStore /\ [][NextReads]_vars

\* where a store error strikes a merge_with_database call: nowhere, at the
\* count read before the upsert (line 140) or at the one after it (line 150)
MergeFaults == {"none", "read1", "read2"}

\* merge_with_database lines 130-166 without the messages: the rows the call
\* leaves committed and the value it returns
MergeUpsert(rows, new_words, fault) ==
    IF new_words = <<>> THEN [rows |-> rows, value |-> FALSE]
    ELSE IF fault = "read1" \/ RaisesKeyError(new_words)
    THEN [rows |-> rows, value |-> FALSE]
    ELSE LET res == ExecuteMany(rows, WordData(new_words), 1)
         IN  IF ~res.ok THEN [rows |-> ExecuteFails(rows, res.rows), value |-> FALSE]
             ELSE [rows |-> res.rows, value |-> fault # "read2"]

\* result_type = "partial" if is_partial else "complete" (line 154)
ResultType(is_partial) == IF is_partial THEN "partial" ELSE "complete"

\* a partial merge is acknowledged but not written
MergeReturnStaged(rows, new_words, length, is_partial, fault) ==
    IF is_partial /\ new_words # <<>>
    THEN [rows |-> rows, value |-> TRUE, result_type |-> ResultType(is_partial)]
    ELSE MergeUpsert(rows, new_words, fault) @@ [result_type |-> ResultType(is_partial)]

\* merge_with_database(new_words, length, is_partial), lines 128-166, as one
\* step: is_partial reaches the message of lines 154-156 only, length the
\* two counting reads and the messages
MergeReturn(rows, new_words, length, is_partial, fault) ==
    MergeUpsert(rows, new_words, fault) @@ [result_type |-> ResultType(is_partial)]

\* a whole merge_with_database call with is_partial = p, and beside its
\* outcome what the same call with the other value of is_partial gives
MergeWhole(t, b, L, p, fault) ==
    /\ tpc[t] = "idle"
    /\ UNCHANGED <<fetchVars, signalVars, clock, metaVars>>
    /\ LET done == MergeReturn(words, b, L, p, fault)
       IN  /\ words' = done.rows
           /\ outcome' = [outcome EXCEPT ![t] =
                   [kind |-> "return", value |-> Len(b), success |-> done.value,
                    before |-> words, after |-> done.rows,
                    otherwise |-> MergeReturn(words, b, L, ~p, fault)]]
    /\ call' = [call EXCEPT ![t] =
            [op |-> "merge_with_database", handle |-> "db", batch |-> b,
             length |-> L, is_partial |-> p, fault |-> fault]]
    /\ tpc' = [tpc EXCEPT ![t] = "returned"]
    /\ UNCHANGED <<lock, txn, pending>>

\* merges of one thread, each a single step
NextMerges ==
    \/ \E b \in Batches, L \in MergeLengths, p \in BOOLEAN, fault \in MergeFaults :
          MergeWhole("fetch", b, L, p, fault)
    \/ Finish("fetch")
    \/ Tick

\* merge_with_database with either value of is_partial
SpecMerges == InitStore /\ [][NextMerges]_vars

-----------------------------------------------------------------------------
(* Properties of the store (SpecStore, SpecThreads) *)

WordsOf(rows) == {r.word : r \in rows}

\* the points the last record for word w in batch b carries
LastPoints(b, w) ==
    LET last == CHOOSE i \in 1..Len(b) :
                    /\ b[i].word = w
                    /\ \A j \in 1..Len(b) : b[j].word = w => j <= i
    IN  Get(b[last], "points", 0)

Inserted(t) ==
    /\ call[t].op = "insert_words_batch"
    /\ outcome[t].kind = "return"
    /\ call[t].batch # <<>>

\* C1: after any sequence of insert_words_batch calls the table holds at most
\* one row per word; a committed batch leaves exactly one row for each of its
\* words, carrying the points of the latest record for that word, and when
\* every word of the batch was already stored the length distribution is the
\* same before and after the call.
C1_OneRowPerWordLatestPoints ==
    /\ \A r1, r2 \in words : r1.word = r2.word => r1 = r2
    /\ \A t \in Threads : Inserted(t) =>
          LET b == call[t].batch
              before == outcome[t].before
              after == outcome[t].after
          IN  /\ \A i \in 1..Len(b) :
                    /\ Cardinality({r \in after : r.word = b[i].word}) = 1
                    /\ \A r \in after :
                          r.word = b[i].word => r.points = LastPoints(b, b[i].word)
              /\ (\A i \in 1..Len(b) : b[i].word \in WordsOf(before))
                    => LengthDistribution(after) = LengthDistribution(before)

\* a stored word has been upserted again with different points
C1_Witness ==
    \E t \in Threads :
        /\ Inserted(t)
        /\ \E i \in 1..Len(call[t].batch) : \E r \in outcome[t].before :
              /\ r.word = call[t].batch[i].word
              /\ r.points # Get(call[t].batch[i], "points", 0)
        /\ \E r \in outcome[t].before : r.length = 3

InWriteSection(t) == tpc[t] \in {"build", "exec", "commit"}

\* C6: batch upserts are mutually exclusive process-wide: no two threads are
\* inside the write section of insert_words_batch at the same time, whichever
\* store handle each of them goes through.
C6_WritersMutuallyExclusive ==
    \A t1, t2 \in Threads : t1 # t2 => ~(InWriteSection(t1) /\ InWriteSection(t2))

\* C7: merge_with_database returns False only when new_words is empty; a store
\* error during the merge reaches the caller as an exception, it is not turned
\* into a return value.
C7_MergeFalseOnlyWhenEmpty ==
    \A t \in Threads :
        (call[t].op = "merge_with_database" /\ outcome[t].kind = "return"
            /\ ~outcome[t].success)
        => call[t].batch = <<>>

\* C11: created_at of a word is set when the word is first inserted and no
\* later upsert of the same word changes it, while updated_at is set to the
\* time of each such upsert.
C11_CreatedAtSetOnce ==
    \A t \in Threads : Inserted(t) =>
        \A r1 \in outcome[t].before : \A r2 \in outcome[t].after :
            r1.word = r2.word =>
                /\ r2.created_at = r1.created_at
                /\ (\E i \in 1..Len(call[t].batch) : call[t].batch[i].word = r1.word)
                      => r2.updated_at >= r1.updated_at

\* the dict_matches the last record for word w in batch b carries
LastMatches(b, w) ==
    LET last == CHOOSE i \in 1..Len(b) :
                    /\ b[i].word = w
                    /\ \A j \in 1..Len(b) : b[j].word = w => j <= i
    IN  Get(b[last], "dict_matches", <<>>)

\* C12: after a word is upserted again, its stored dict_flags are exactly the
\* encoding of the memberships of the latest record: a bit stored before that
\* the later record omits or sets false is cleared, nothing is OR-ed in.
C12_FlagsLastWriteWins ==
    \A t \in Threads : Inserted(t) =>
        \A i \in 1..Len(call[t].batch) : \A r \in outcome[t].after :
            r.word = call[t].batch[i].word =>
                r.dict_flags = DictMatchesToFlags(LastMatches(call[t].batch, r.word))

\* a word stored with the wordle bit has been upserted with a record that sets
\* wordle false and otcwl true: the wordle bit is gone
C12_Witness ==
    \E t \in Threads :
        /\ Inserted(t)
        /\ \E r1 \in outcome[t].before : \E r2 \in outcome[t].after :
              /\ r1.word = r2.word
              /\ Bit(r1.dict_flags, BitPos("wordle"))
              /\ ~Bit(r2.dict_flags, BitPos("wordle"))
              /\ Bit(r2.dict_flags, BitPos("otcwl"))

\* C15: insert_words_batch([]) returns 0 and touches neither the store nor
\* the write lock: the call is never found waiting for or holding the lock,
\* and the rows and the length distribution are the same before and after.
C15_EmptyBatchTouchesNothing ==
    \A t \in Threads :
        (call[t].op = "insert_words_batch" /\ call[t].batch = <<>>) =>
            /\ tpc[t] = "returned"
            /\ outcome[t].kind = "return"
            /\ outcome[t].value = 0
            /\ outcome[t].after = outcome[t].before
            /\ LengthDistribution(outcome[t].after) = LengthDistribution(outcome[t].before)
            /\ lock[call[t].handle] # t

\* an empty batch has returned on a store that holds words while the other
\* thread holds the lock of the same handle
C15_Witness ==
    \E t \in Threads :
        /\ call[t].op = "insert_words_batch"
        /\ call[t].batch = <<>>
        /\ tpc[t] = "returned"
        /\ words # {}
        /\ lock[call[t].handle] \notin {NoThread, t}

\* C16: the core never deletes a word: no step of an upsert, a merge, a legacy
\* import (successful or failed) or a re-initialization of the store on the
\* same file removes a word string from the store.
C16_NeverDeletesAWord == [][WordsOf(words) \subseteq WordsOf(words')]_vars

\* the store was re-initialized after a word had been stored, and the word is
\* still there
C16_Witness ==
    /\ \E r \in words : r.created_at < metadata["created_at"]
    /\ \E t \in Threads :
          call[t].op = "migrate_from_json" /\ tpc[t] = "returned"

\* C23: every stored row satisfies length == len(word) after any sequence of
\* upserts, merges and legacy imports, whatever length argument was passed to
\* merge_with_database for the batch.
C23_LengthIsLenOfWord == \A r \in words : r.length = Len(r.word)

\* a merge called with length 3 has stored a word of two letters
C23_Witness ==
    \E t \in Threads :
        /\ call[t].op = "merge_with_database"
        /\ tpc[t] = "returned"
        /\ outcome[t].success
        /\ call[t].length = 3
        /\ \E r \in words : r.word = call[t].batch[1].word /\ r.length = 2

\* C25: the dictionary registry is seeded at store initialization and never
\* mutated afterward: after any sequence of upserts, imports and
\* re-initializations of the store on the same file it holds exactly the six
\* seeded (name, bit position) pairs, each name and each bit position once.
C25_RegistryNeverMutated ==
    /\ {<<d.name, d.bit_position>> : d \in dictionaries}
          = {<<"octordle", 0>>, <<"otcwl", 1>>, <<"quordle", 2>>,
             <<"sowpods", 3>>, <<"wordle", 4>>, <<"wwf", 5>>}
    /\ \A d, e \in dictionaries :
          (d.name = e.name \/ d.bit_position = e.bit_position) => d = e

\* the store has been re-initialized on a file that holds an imported word
C25_Witness ==
    /\ metadata["created_at"] > 0
    /\ "migrated_from" \in DOMAIN metadata
    /\ words # {}

\* C26: legacy import is all-or-nothing per invocation: whenever
\* migrate_from_json returns False the words table and the migration metadata
\* are exactly as before the call, and whenever it returns True every word of
\* the source is in the store and the migration metadata (migrated_from,
\* migration_date) has been recorded.
C26_ImportAllOrNothing ==
    \A t \in Threads :
        (call[t].op = "migrate_from_json" /\ tpc[t] = "returned") =>
            IF outcome[t].success
            THEN /\ \A i \in 1..Len(call[t].batch) :
                       call[t].batch[i].word \in WordsOf(words)
                 /\ {"migrated_from", "migration_date"} \subseteq DOMAIN metadata
            ELSE /\ outcome[t].after = outcome[t].before
                 /\ MigrationMetadata(metadata) = call[t].migration_before

\* C10: when insert_words_batch fails part-way (a record without 'word', a
\* points value of None) the call raises, the table holds exactly the rows it
\* held before the call, and the write lock and the transaction are released.
C10_FailedBatchCommitsNothing ==
    \A t \in Threads :
        (call[t].op = "insert_words_batch" /\ tpc[t] = "raised") =>
            /\ outcome[t].kind = "raise"
            /\ outcome[t].after = outcome[t].before
            /\ words = outcome[t].before
            /\ lock[call[t].handle] = NoThread
            /\ txn = NoThread
            /\ pending = {}

\* a batch failed on its second record after a first record that would have
\* changed the table
C10_Witness ==
    \E t \in Threads :
        /\ call[t].op = "insert_words_batch"
        /\ tpc[t] = "raised"
        /\ Len(call[t].batch) = 2
        /\ "word" \in DOMAIN call[t].batch[1]
        /\ Get(call[t].batch[1], "points", 0) # NULL
        /\ \A r \in outcome[t].before : Columns(r) # WordTuple(call[t].batch[1])
        /\ "word" \in DOMAIN call[t].batch[2]
        /\ call[t].batch[2].points = NULL

-----------------------------------------------------------------------------
(* Properties of merge_with_database as a whole (SpecMerges) *)

\* C33: is_partial does not change persistence: for every store state and
\* every batch, merge_with_database(words, length, is_partial=True) and
\* merge_with_database(words, length, is_partial=False) leave the store in the
\* same state and return the same value.
C33_IsPartialChangesNothing ==
    \A t \in Threads :
        (call[t].op = "merge_with_database" /\ tpc[t] = "returned"
            /\ "otherwise" \in DOMAIN outcome[t]) =>
            /\ outcome[t].otherwise.rows = outcome[t].after
            /\ outcome[t].otherwise.value = outcome[t].success

\* a partial merge has replaced a stored word and returned True, and the
\* complete merge of the same batch gives the same
C33_Witness ==
    \E t \in Threads :
        /\ call[t].op = "merge_with_database"
        /\ tpc[t] = "returned"
        /\ "otherwise" \in DOMAIN outcome[t]
        /\ call[t].is_partial
        /\ outcome[t].success
        /\ outcome[t].before # {}
        /\ outcome[t].after # outcome[t].before
        /\ outcome[t].otherwise.result_type = "complete"

-----------------------------------------------------------------------------
(* Properties of the flag codec (SpecCodec) *)

Decoded(t) == call[t].op = "_flags_to_dict_matches" /\ tpc[t] = "returned"

\* m extended with False for every registered name absent from m
Extended(m) ==
    [name \in DOMAIN m \cup RegisteredNames |->
        IF name \in DOMAIN m THEN m[name] ELSE FALSE]

\* m cut down to the registered names
Registered(m) == [name \in DOMAIN m \cap RegisteredNames |-> m[name]]

\* C13 as stated: for every membership mapping m,
\* _flags_to_dict_matches(_dict_matches_to_flags(m)) equals m extended with
\* False for every registered dictionary name absent from m.
C13_RoundTripEveryMapping ==
    \A t \in Threads : Decoded(t) => outcome[t].result = Extended(call[t].args)

\* C13: for every membership mapping m,
\* _flags_to_dict_matches(_dict_matches_to_flags(m)) equals the registered
\* part of m extended with False for every registered dictionary name absent
\* from m; names the registry does not know are dropped.
C13_RoundTripRegistered ==
    \A t \in Threads :
        Decoded(t) => outcome[t].result = Extended(Registered(call[t].args))

\* a mapping with a true and a false registered name, absent registered names
\* and an unknown name has gone through the codec
C13_Witness ==
    \E t \in Threads :
        /\ Decoded(t)
        /\ DOMAIN call[t].args = {"wordle", "wwf", "unknown"}
        /\ call[t].args["wordle"]
        /\ ~call[t].args["wwf"]
        /\ call[t].args["unknown"]

\* _dict_matches_to_flags has returned and its result has not been decoded yet
Encoded(t) == call[t].op = "_dict_matches_to_flags" /\ tpc[t] = "encoded"

\* C35: _dict_matches_to_flags(m) sets bit i exactly when the registered name
\* with bit position i is present in m with a true value; a name the registry
\* does not know never changes the result, an absent name counts as false,
\* and the result always lies in 0..63.
C35_EncodingLaw ==
    \A t \in Threads :
        Encoded(t) =>
            /\ outcome[t].value \in 0..63
            /\ \A name \in RegisteredNames :
                  Bit(outcome[t].value, BitPos(name)) <=>
                      (name \in DOMAIN call[t].args /\ call[t].args[name])

\* a mapping with a true registered name, a false one and a true unknown name
\* has been encoded: only bit 1 (otcwl) is set
C35_Witness ==
    \E t \in Threads :
        /\ Encoded(t)
        /\ DOMAIN call[t].args = {"otcwl", "wordle", "unknown"}
        /\ call[t].args["otcwl"]
        /\ ~call[t].args["wordle"]
        /\ call[t].args["unknown"]
        /\ outcome[t].value = 2

-----------------------------------------------------------------------------
(* Properties of the signal handler (Spec) *)

\* C18: the shutdown callback registered with set_shutdown_callback is invoked
\* exactly once, when cancellation is first signaled; a second signal while
\* should_exit is already True does not invoke it again.
C18_CallbackInvokedOnce == callback_calls <= 1

-----------------------------------------------------------------------------
(* Properties of reads against writes (SpecReads) *)

Reading(t) == tpc[t] \in {"reading", "reading2"}

\* C17: a read never acquires the write lock: a thread inside a read holds no
\* lock, its next SELECT can run whatever locks are held (so it can start and
\* complete while another thread is inside insert_words_batch holding the
\* lock), and a writer waiting for a lock that no writer holds can take it
\* whether or not a read is under way.
C17_ReadsTakeNoWriteLock ==
    /\ \A t \in Threads :
          Reading(t) =>
              /\ \A h \in Handles : lock[h] # t
              /\ ENABLED (Select(t) \/ SelectHighestWord(t))
    /\ \A u \in Threads :
          (/\ tpc[u] = "lock"
           /\ \A v \in Threads \ {u} :
                 ~(InWriteSection(v) /\ call[v].handle = call[u].handle))
          => ENABLED AcquireLock(u)

\* a read has started and returned while the other thread was inside
\* insert_words_batch, holding the lock of the store the read went to
C17_Witness ==
    /\ tpc["main"] = "returned"
    /\ call["main"].op \in {"get_words_by_length", "get_statistics"}
    /\ call["main"].handle \in call["main"].held_at_call
    /\ call["main"].handle \in outcome["main"].held_at_return
    /\ InWriteSection("fetch")
    /\ call["fetch"].handle = call["main"].handle
    /\ lock[call["main"].handle] = "fetch"

-----------------------------------------------------------------------------
(* Properties of the read operations (SpecQueries) *)

ReadReturned(t, op) == call[t].op = op /\ tpc[t] = "returned"

\* the words of a returned list, and whether it runs by non-increasing points
ResultWords(res) == {res[i].word : i \in 1..Len(res)}
NonIncreasing(res) == \A i \in 1..Len(res) - 1 : res[i].points >= res[i + 1].points

\* C14: for any store content, get_words_by_length(L) returns exactly the
\* stored words whose length is L, each of them once and with its stored
\* points, no word of another length, ordered by non-increasing points.
C14_WordsByLength ==
    \A t \in Threads :
        (ReadReturned(t, "get_words_by_length") /\ ~Given(call[t], "limit")) =>
            LET res == outcome[t].result
                ofLength == {r \in outcome[t].before : Len(r.word) = call[t].length}
            IN  /\ ResultWords(res) = {r.word : r \in ofLength}
                /\ Len(res) = Cardinality(ofLength)
                /\ \A i \in 1..Len(res) : \E r \in ofLength :
                      r.word = res[i].word /\ r.points = res[i].points
                /\ NonIncreasing(res)

\* the words of length 3, of which there are two with different points, were
\* read from a store that also holds words of length 2
C14_Witness ==
    \E t \in Threads :
        /\ ReadReturned(t, "get_words_by_length")
        /\ ~Given(call[t], "limit")
        /\ call[t].length = 3
        /\ Len(outcome[t].result) = 2
        /\ Cardinality(outcome[t].before) = 4

\* the rows get_statistics and get_top_words select from: those of the length
\* passed, every row when none is passed
OfLengthArg(q, rows) ==
    IF Given(q, "length") THEN {r \in rows : Len(r.word) = q.length} ELSE rows

\* C21: get_statistics(length?) reports over the selected rows total = row
\* count, highest/lowest/total points = max/min/sum of points and highest_word
\* = a selected word whose points equal the maximum; when no row is selected
\* (an empty store included) it returns total 0, average 0, highest 0, lowest
\* 0, total points 0 and highest_word ''.
C21_Statistics ==
    \A t \in Threads :
        ReadReturned(t, "get_statistics") =>
            LET res == outcome[t].result
                S == OfLengthArg(call[t], outcome[t].before)
            IN  /\ res.total_words = Cardinality(S)
                /\ S # {} =>
                      /\ \E r \in S : r.points = res.highest_points
                      /\ \A r \in S : r.points <= res.highest_points
                      /\ \E r \in S : r.points = res.lowest_points
                      /\ \A r \in S : r.points >= res.lowest_points
                      /\ res.total_points = SumPoints(S)
                      /\ \E r \in S : /\ r.word = res.highest_word
                                       /\ r.points = res.highest_points
                /\ S = {} =>
                      /\ res.average_points = 0
                      /\ res.highest_points = 0
                      /\ res.lowest_points = 0
                      /\ res.total_points = 0
                      /\ res.highest_word = ""

\* the statistics of length 3 were taken over a store that holds two words of
\* that length, with 0 and 5 points, beside two words of length 2
C21_Witness ==
    \E t \in Threads :
        /\ ReadReturned(t, "get_statistics")
        /\ Given(call[t], "length")
        /\ call[t].length = 3
        /\ Cardinality(outcome[t].before) = 4
        /\ outcome[t].result.total_words = 2
        /\ outcome[t].result.lowest_points = 0
        /\ outcome[t].result.highest_word = "cab"

\* C22: get_top_words(length?, limit) returns min(limit, number of matching
\* rows) records by non-increasing points, and they are a top-N: every matching
\* word that is not returned has points no greater than the lowest points
\* returned; with length given only words of that length are returned,
\* without it the words of all lengths compete.
C22_TopWords ==
    \A t \in Threads :
        ReadReturned(t, "get_top_words") =>
            LET res == outcome[t].result
                S == OfLengthArg(call[t], outcome[t].before)
            IN  /\ Len(res) = Min(call[t].limit, Cardinality(S))
                /\ Cardinality(ResultWords(res)) = Len(res)
                /\ \A i \in 1..Len(res) : \E r \in S :
                      r.word = res[i].word /\ r.points = res[i].points
                /\ NonIncreasing(res)
                /\ \A r \in S : r.word \notin ResultWords(res) =>
                      \A i \in 1..Len(res) : res[i].points >= r.points

\* the top 3 of all lengths were taken from four stored words: a word of
\* length 3 leads, the two words of length 2 follow, the word with 0 points
\* is left out
C22_Witness ==
    \E t \in Threads :
        /\ ReadReturned(t, "get_top_words")
        /\ ~Given(call[t], "length")
        /\ call[t].limit = 3
        /\ Cardinality(outcome[t].before) = 4
        /\ Len(outcome[t].result) = 3
        /\ outcome[t].result[1].word = "cab"
        /\ "abc" \notin ResultWords(outcome[t].result)

RECURSIVE SumCounts(_)
SumCounts(items) ==
    IF items = <<>> THEN 0 ELSE Head(items).count + SumCounts(Tail(items))

\* C24: get_length_distribution() maps each length that has at least one
\* stored word to the number of stored words of that length, in ascending
\* length order, with no entry for a length that has no word; the counts sum
\* to the total number of stored words.
C24_LengthDistribution ==
    \A t \in Threads :
        ReadReturned(t, "get_length_distribution") =>
            LET res == outcome[t].result
                stored == outcome[t].before
            IN  /\ {res[i].length : i \in 1..Len(res)} = {Len(r.word) : r \in stored}
                /\ \A i \in 1..Len(res) :
                      /\ res[i].count >= 1
                      /\ res[i].count
                            = Cardinality({r \in stored : Len(r.word) = res[i].length})
                /\ \A i, j \in 1..Len(res) : i < j => res[i].length < res[j].length
                /\ SumCounts(res) = Cardinality(stored)

\* the distribution of a store with two words of length 2 and two of length 3
C24_Witness ==
    \E t \in Threads :
        /\ ReadReturned(t, "get_length_distribution")
        /\ Cardinality(outcome[t].before) = 4
        /\ outcome[t].result = <<[length |-> 2, count |-> 2], [length |-> 3, count |-> 2]>>

\* a glob matcher on character sequences: ? matches exactly one character, *
\* any run of characters, every other character itself
RECURSIVE Glob(_, _)
Glob(pat, val) ==
    IF pat = <<>> THEN val = <<>>
    ELSE IF Head(pat) = "*"
    THEN Glob(Tail(pat), val) \/ (val # <<>> /\ Glob(pat, Tail(val)))
    ELSE /\ val # <<>>
         /\ Head(pat) = "?" \/ Head(pat) = Head(val)
         /\ Glob(Tail(pat), Tail(val))

FilterNames == {"pattern", "min_points", "max_points", "contains"}

\* C19: search_words(pattern=p) returns exactly the stored words a '?'/'*'
\* glob matcher accepts for p: '?' stands for exactly one arbitrary character
\* of the word and '*' for any run of characters, the empty one included.
C19_PatternIsGlob ==
    \A t \in Threads :
        (ReadReturned(t, "search_words")
            /\ {k \in FilterNames : Given(call[t], k)} = {"pattern"}) =>
            ResultWords(outcome[t].result)
                = {r.word : r \in {x \in outcome[t].before :
                                      Glob(Chars(call[t].pattern), Chars(x.word))}}

\* whether row r passes the filter k with value v
Satisfies(k, v, r) ==
    CASE k = "pattern"    -> Like(Chars(v), Chars(r.word))
      [] k = "contains"   -> Like(<<"%">> \o Chars(v) \o <<"%">>, Chars(r.word))
      [] k = "min_points" -> r.points >= v
      [] k = "max_points" -> r.points <= v

\* the filters a call provides: every argument it passes
Provided(q) == {k \in FilterNames : Given(q, k)}

\* the filters a call provides, an empty string counting as none
ProvidedNonEmpty(q) ==
    {k \in Provided(q) : k \in {"pattern", "contains"} => q[k] # ""}

\* the list res holds exactly the rows of S, each once, by non-increasing points
ExactlyInOrder(res, S) ==
    /\ ResultWords(res) = {r.word : r \in S}
    /\ Len(res) = Cardinality(S)
    /\ NonIncreasing(res)

\* C20 as stated: a stored word is returned iff it satisfies every filter the
\* call passes (bounds inclusive), and the result runs by non-increasing points.
C20_ConjunctiveFilter ==
    \A t \in Threads :
        ReadReturned(t, "search_words") =>
            ExactlyInOrder(outcome[t].result,
                {r \in outcome[t].before :
                    \A k \in Provided(call[t]) : Satisfies(k, call[t][k], r)})

\* C20: search_words is a conjunctive filter: a stored word is returned iff it
\* satisfies every provided filter, an empty pattern or contains string
\* counting as not provided; min_points and max_points are inclusive, a bound
\* of 0 included; with no filter every stored word is returned; the result
\* runs by non-increasing points.
C20_ConjunctiveFilterNonEmpty ==
    \A t \in Threads :
        ReadReturned(t, "search_words") =>
            ExactlyInOrder(outcome[t].result,
                {r \in outcome[t].before :
                    \A k \in ProvidedNonEmpty(call[t]) : Satisfies(k, call[t][k], r)})

\* a search with min_points = 0, max_points = 3 and a substring has returned
\* the three words that pass all of them and left out the fourth
C20_Witness ==
    \E t \in Threads :
        /\ ReadReturned(t, "search_words")
        /\ Provided(call[t]) = {"min_points", "max_points", "contains"}
        /\ call[t].min_points = 0
        /\ call[t].max_points = 3
        /\ call[t].contains = "b"
        /\ Cardinality(outcome[t].before) = 4
        /\ Len(outcome[t].result) = 3

-----------------------------------------------------------------------------
(* Properties of the fetch orchestrator (Spec) *)

ManagerFetches == {"fetch_all_words", "_fetch_single_length_with_progress"}

\* the pages of length L that had been accumulated when the flag went up
PagesAtExit(L) ==
    IF task[L].exit_at.pc = "sleep" THEN task[L].exit_at.page
    ELSE task[L].exit_at.page - 1

\* the flag was raised from outside between the accumulation of page k and the
\* check that precedes page k + 1, with pages still to come
CancelledBetweenPages(L) ==
    /\ task[L].pc = "done"
    /\ task[L].kind \in ManagerFetches
    /\ exit_by = "external"
    /\ task[L].exit_at.pc \in {"loop", "sleep"}
    /\ PagesAtExit(L) >= 1
    /\ PagesAtExit(L) < num_pages[L]
    /\ task[L].failed = {}

SeqToSet(q) == {q[i] : i \in 1..Len(q)}

\* C2: in fetch_all_words and _fetch_single_length_with_progress, at whatever
\* point the flag is raised once the first page has been accumulated (between
\* pages, during the request for any page including the last, during the delay
\* after it), the fetch merges its buffer with is_partial=True before it
\* returns, so every returned word is in the store.
C2_CancelAlwaysMergesPartial ==
    \A L \in Lengths :
        ( /\ task[L].pc = "done"
          /\ task[L].kind \in ManagerFetches
          /\ exit_by = "external"
          /\ task[L].exit_at.pc \in {"loop", "req", "sleep"}
          /\ task[L].all_words # <<>> )
        => /\ \E i \in 1..Len(task[L].merges) :
                 /\ task[L].merges[i].is_partial
                 /\ task[L].merges[i].words = task[L].all_words
           /\ \A i \in 1..Len(task[L].all_words) :
                 task[L].all_words[i].word \in WordsOf(words)

\* C3: when the flag is raised after page k (1 <= k < N) has been accumulated
\* and before the check that precedes page k + 1, and no request failed, the
\* fetch returns exactly the words of pages 1..k in page order, merges them
\* once with is_partial=True, and the store holds for that length exactly
\* those words and none of the words of pages k+1..N; with 3 pages of length
\* 4 and k = 1 that is 2 words returned and the later 4 absent.
C3_CancelAfterPageK ==
    \A L \in Lengths : CancelledBetweenPages(L) =>
        LET k == PagesAtExit(L)
            later == SeqToSet(Concat(RemotePages(L), num_pages[L]))
                        \ SeqToSet(Concat(RemotePages(L), k))
        IN  /\ task[L].all_words = Concat(RemotePages(L), k)
            /\ task[L].merges = <<[words |-> task[L].all_words, is_partial |-> TRUE]>>
            /\ {Columns(r) : r \in RowsOfLength(words, L)}
                  = {WordTuple(w) : w \in SeqToSet(task[L].all_words)}
            /\ \A w \in later : w.word \notin WordsOf(words)
            /\ (L = 4 /\ num_pages[L] = 3 /\ k = 1) =>
                  /\ Len(task[L].all_words) = 2
                  /\ Cardinality(later) = 4

\* the 3-page scenario of length 4, cancelled after page 1
C3_Witness ==
    /\ CancelledBetweenPages(4)
    /\ num_pages[4] = 3
    /\ PagesAtExit(4) = 1
    /\ driver.entry = "fetch_all_words"

CompletedUndisturbed(L) ==
    /\ task[L].pc = "done"
    /\ task[L].kind \in ManagerFetches
    /\ ~should_exit
    /\ task[L].failed = {}
    /\ num_pages[L] >= 1

\* C4: with no cancellation and no request error a single-length fetch over N
\* pages returns the concatenation of pages 1..N and calls merge_with_database
\* exactly once, with is_partial=False; in the 3-page scenario of length 4 it
\* yields 6 words and get_top_words(4, limit=3) then returns abcd, ijkl, efgh.
C4_CompleteFetch ==
    \A L \in Lengths : CompletedUndisturbed(L) =>
        /\ task[L].all_words = Concat(RemotePages(L), num_pages[L])
        /\ task[L].merges = <<[words |-> task[L].all_words, is_partial |-> FALSE]>>
        /\ (L = 4 /\ num_pages[L] = 3) =>
              /\ Len(task[L].all_words) = 6
              /\ {[i \in 1..3 |-> res[i].word] : res \in GetTopWords(words, 4, 3)}
                    = {<<"abcd", "ijkl", "efgh">>}

\* the 3-page scenario of length 4 has run to completion
C4_Witness ==
    /\ CompletedUndisturbed(4)
    /\ num_pages[4] = 3
    /\ driver.entry = "_fetch_single_length_with_progress"

\* what a length yields when it is fetched on its own and nothing disturbs it
FetchedAlone(L) == Concat(RemotePages(L), num_pages[L])

\* a multi-length fetch has returned; the lengths whose first request raised
\* have an empty list, every other length whose own requests all succeeded
\* has what it yields when fetched on its own
Isolated(entry) ==
    ( /\ driver.entry = entry
      /\ driver.pc = "done"
      /\ exit_by # "external" )
    => \A L \in SeqToSet(driver.lengths) :
          /\ 1 \in task[L].failed => driver.results[L] = <<>>
          /\ task[L].failed = {} => driver.results[L] = FetchedAlone(L)

\* C5: in fetch_multiple_lengths_sequential, when the first request for one
\* length raises, the mapping holds an empty list for that length and, for
\* every other length, the list that length yields when fetched on its own.
C5_SequentialIsolation == Isolated("fetch_multiple_lengths_sequential")

\* C9: under fetch_multiple_lengths_concurrent the per-length tasks share no
\* mutable state but the store, so that an error in one length's fetch leaves
\* every other length's result equal to what that length returns when it is
\* fetched alone.
C9_ConcurrentIsolation == Isolated("fetch_multiple_lengths_concurrent")

Limited(L) == task[L].kind = "_fetch_with_limit"

\* the words accumulated from the pages requested before the last request
RECURSIVE WordsBefore(_, _)
WordsBefore(L, n) ==
    IF n = 0 THEN 0
    ELSE WordsBefore(L, n - 1)
            + (IF task[L].requests[n] \in task[L].failed THEN 0
               ELSE Len(RemotePages(L)[task[L].requests[n]]))

\* C8: in _fetch_with_limit with cap C the buffer never holds more than C
\* words; no page is requested once C words have been accumulated; a result
\* that reached the cap is merged with is_partial=True; in the 3-page
\* scenario with page size 2 and C = 3 that is 3 words, a partial merge and
\* no request for page 3.
C8_WordCap ==
    \A L \in Lengths : Limited(L) =>
        /\ Len(task[L].all_words) <= task[L].max_words
        /\ Len(task[L].requests) >= 2 =>
              WordsBefore(L, Len(task[L].requests) - 1) < task[L].max_words
        /\ (task[L].pc = "done" /\ Len(task[L].all_words) >= task[L].max_words) =>
              /\ task[L].merges # <<>>
              /\ \A i \in 1..Len(task[L].merges) :
                    /\ task[L].merges[i].is_partial
                    /\ task[L].merges[i].words = task[L].all_words
              /\ \A i \in 1..Len(task[L].all_words) :
                    \E r \in words : Columns(r) = WordTuple(task[L].all_words[i])
        /\ (task[L].pc = "done" /\ L = 4 /\ num_pages[L] = 3 /\ task[L].max_words = 3
                /\ task[L].failed = {} /\ ~should_exit) =>
              /\ task[L].all_words = SubSeq(Concat(RemotePages(4), 2), 1, 3)
              /\ task[L].requests = <<1, 2>>
              /\ task[L].merges = <<[words |-> task[L].all_words, is_partial |-> TRUE]>>

\* the 3-page scenario with a cap of 3 has stopped at the cap
C8_Witness ==
    /\ Limited(4)
    /\ task[4].pc = "done"
    /\ num_pages[4] = 3
    /\ task[4].max_words = 3
    /\ task[4].failed = {}
    /\ ~should_exit
    /\ Len(task[4].all_words) = 3

\* C27: a merge with is_partial=False happens only at the end of a fetch in
\* which every page 1..N was fetched and accumulated and cancellation was never
\* observed: a fetch in which some page request failed and was skipped, or
\* which was cancelled or capped, never calls merge_with_database with
\* is_partial=False.
C27_CompleteMergeOnlyAfterAllPages ==
    \A L \in Lengths : \A i \in 1..Len(task[L].merges) :
        ~task[L].merges[i].is_partial =>
            /\ task[L].failed = {}
            /\ task[L].merges[i].words = Concat(RemotePages(L), num_pages[L])
            /\ task[L].requests = [p \in 1..num_pages[L] |-> p]

\* the page whose request was in flight when the flag went up, 0 when none was
InFlightAtExit(tk) ==
    CASE tk.exit_at.pc = "req1" -> 1
      [] tk.exit_at.pc = "req"  -> tk.exit_at.page
      [] OTHER -> 0

\* the last page requested before the flag went up
LastRequestAtExit(tk) ==
    CASE tk.exit_at.pc \in {"req", "sleep"} -> tk.exit_at.page
      [] tk.exit_at.pc = "req1" -> 1
      [] tk.exit_at.pc = "loop" -> tk.exit_at.page - 1
      [] OTHER -> 0

\* the response for page p has arrived
Answered(tk, p) ==
    \/ tk.pc \in {"loop", "sleep", "done"}
    \/ tk.pc = "req" /\ tk.page_num > p

\* C28: cancellation is polled, never preemptive: a page request that is in
\* flight when the flag becomes set completes and its words are appended to the
\* buffer (as far as the word cap of a limited fetch leaves room), and once the
\* flag is set no request for any later page is issued.
C28_CancellationIsPolled ==
    \A L \in Lengths :
        LET tk == task[L]
            p == InFlightAtExit(tk)
        IN  /\ (p > 0 /\ p <= num_pages[L] /\ Answered(tk, p) /\ p \notin tk.failed) =>
                  \/ SeqToSet(RemotePages(L)[p]) \subseteq SeqToSet(tk.all_words)
                  \/ /\ tk.kind = "_fetch_with_limit"
                     /\ Len(tk.all_words) = tk.max_words
                     /\ RemotePages(L)[p][1] \in SeqToSet(tk.all_words)
            /\ tk.exit_at.pc \notin {"unset", "done"} =>
                  \A i \in 1..Len(tk.requests) : tk.requests[i] <= LastRequestAtExit(tk)

\* the flag went up while the request for page 2 of 3 was in flight: the fetch
\* has ended with the words of pages 1 and 2 and never asked for page 3
C28_Witness ==
    \E L \in Lengths :
        /\ task[L].kind \in ManagerFetches
        /\ task[L].exit_at = [pc |-> "req", page |-> 2]
        /\ task[L].pc = "done"
        /\ num_pages[L] = 3
        /\ task[L].requests = <<1, 2>>
        /\ task[L].all_words = Concat(RemotePages(L), 2)

\* the flag was up before the fetch for length L began
FlagSetAtStart(L) == task[L].exit_at.pc \in {"idle", "start"}

\* C29: if the cancellation flag is already set when a single-length fetch
\* starts, the fetch issues no request at all (not even the first), performs
\* no merge, leaves the store unchanged and returns an empty list.
C29_NoRequestWhenFlagSetAtStart ==
    \A L \in Lengths :
        (FlagSetAtStart(L) /\ task[L].kind # "none") =>
            /\ task[L].pc \in {"start", "done"}
            /\ task[L].requests = <<>>
            /\ task[L].merges = <<>>
            /\ task[L].all_words = <<>>
            /\ Len(driver.lengths) = 1 => words \in InitialStores
            /\ L \in DOMAIN driver.results => driver.results[L] = <<>>

\* fetch_all_words(4) was called with the flag up: it has returned the empty
\* list to its caller, and the remote's three pages were never asked for
C29_Witness ==
    /\ driver.entry = "fetch_all_words"
    /\ driver.pc = "done"
    /\ FlagSetAtStart(4)
    /\ num_pages[4] = 3
    /\ driver.results[4] = <<>>
    /\ words # {}

RECURSIVE ConcatExcept(_, _, _)
\* the word lists of pages 1..n but those in skip, one after the other
ConcatExcept(pages, n, skip) ==
    IF n = 0 THEN <<>>
    ELSE ConcatExcept(pages, n - 1, skip) \o (IF n \in skip THEN <<>> ELSE pages[n])

\* a WordManager fetch for length L has ended, the flag was never set, and
\* requests for pages other than the first have failed
EndedWithFailedPages(L) ==
    /\ task[L].pc = "done"
    /\ task[L].kind \in ManagerFetches
    /\ ~should_exit
    /\ task[L].failed # {}
    /\ 1 \notin task[L].failed

\* C30: when the request for page k (k >= 2) fails and cancellation is not
\* requested, the fetch does not abort: it goes on to request page k+1 (every
\* page up to the last is requested), returns the words of every page that
\* succeeded, merges them, and the failure leaves the cancellation flag unset.
C30_FailedPageIsSkipped ==
    \A L \in Lengths :
        /\ EndedWithFailedPages(L) =>
              /\ task[L].requests = [p \in 1..num_pages[L] |-> p]
              /\ task[L].all_words
                    = ConcatExcept(RemotePages(L), num_pages[L], task[L].failed)
              /\ Len(task[L].merges) = 1
              /\ task[L].merges[1].words = task[L].all_words
              /\ \A i \in 1..Len(task[L].all_words) :
                    task[L].all_words[i].word \in WordsOf(words)
        /\ (task[L].failed # {} /\ 1 \notin task[L].failed /\ exit_by # "fetch"
                /\ task[L].exit_at.pc = "unset") => ~should_exit

\* of the three pages of length 4 the request for page 2 has failed: the fetch
\* has gone on to page 3 and ended with the words of pages 1 and 3
C30_Witness ==
    /\ EndedWithFailedPages(4)
    /\ driver.entry = "fetch_all_words"
    /\ num_pages[4] = 3
    /\ task[4].failed = {2}
    /\ task[4].requests = <<1, 2, 3>>
    /\ Len(task[4].all_words) = 4

\* the request for page k >= 2 of a WordManager fetch has failed with the flag
\* up: the flag was raised while that request was in flight
FailedUnderCancellation(L) ==
    /\ task[L].kind \in ManagerFetches
    /\ task[L].exit_at.pc = "req"
    /\ task[L].exit_at.page \in task[L].failed
    /\ Answered(task[L], task[L].exit_at.page)

\* C31: when the request for page k (k >= 2) fails while cancellation is
\* requested, the fetch merges the words accumulated from the earlier pages
\* with is_partial=True, issues no further page request and returns those
\* words.
C31_FailedPageUnderCancellation ==
    \A L \in Lengths :
        FailedUnderCancellation(L) =>
            LET k == task[L].exit_at.page
            IN  /\ k >= 2
                /\ task[L].pc = "done"
                /\ task[L].all_words = ConcatExcept(RemotePages(L), k - 1, task[L].failed)
                /\ task[L].merges = <<[words |-> task[L].all_words, is_partial |-> TRUE]>>
                /\ \A i \in 1..Len(task[L].requests) : task[L].requests[i] <= k
                /\ \A i \in 1..Len(task[L].all_words) :
                      task[L].all_words[i].word \in WordsOf(words)
                /\ L \in DOMAIN driver.results => driver.results[L] = task[L].all_words

\* of the three pages of length 4 the request for page 2 has failed with the
\* flag up: the words of page 1 were merged as partial and returned, page 3
\* was never asked for
C31_Witness ==
    /\ FailedUnderCancellation(4)
    /\ driver.entry = "fetch_all_words"
    /\ driver.pc = "done"
    /\ num_pages[4] = 3
    /\ task[4].exit_at.page = 2
    /\ task[4].failed = {2}
    /\ task[4].requests = <<1, 2>>
    /\ Len(driver.results[4]) = 2

\* C32: the page requests of one single-length fetch are issued in strictly
\* increasing page order: the first request carries no page token, and page k
\* (2 <= k <= N) is requested with page_token = k-1, each page at most once
\* and never before page k-1 has been attempted.
C32_RequestsInPageOrder ==
    \A L \in Lengths :
        LET req == task[L].requests
            sent == task[L].sent
        IN  /\ Len(sent) = Len(req)
            /\ \A i \in 1..Len(req) :
                  /\ req[i] = i
                  /\ req[i] <= IF i = 1 THEN 1 ELSE num_pages[L]
                  /\ sent[i].length = L
                  /\ IF i = 1 THEN "page_token" \notin DOMAIN sent[i]
                     ELSE sent[i].page_token = req[i] - 1

\* a fetch for length 4 has asked for all three pages, the second of which
\* it did not get
C32_Witness ==
    /\ task[4].pc = "done"
    /\ num_pages[4] = 3
    /\ Len(task[4].sent) = 3
    /\ task[4].sent[3].page_token = 2
    /\ task[4].failed = {2}

-----------------------------------------------------------------------------
(* The published buffer *)

\* the fetch for length L is suspended at an await: the first request, a page
\* request or the sleep between pages
Suspended(L) == task[L].pc \in {"req1", "req", "sleep"}

\* C34: get_partial_words() exposes the very buffer the running fetch
\* accumulates: at every suspension point of a fetch, under the single-length
\* entry points and both multi-length policies, partial_words refers to the
\* buffer of that fetch.
C34_PartialWordsIsTheRunningBuffer ==
    \A L \in Lengths : Suspended(L) => partial_words = L

-----------------------------------------------------------------------------
(* A first response without result pages *)

\* the step in which the fetch for length L takes a first response that
\* carries no word_pages
EmptyFirstResponse(L) ==
    /\ task[L].pc = "req1"
    /\ task'[L].pc = "done"
    /\ num_pages[L] = 0
    /\ 1 \notin task'[L].failed

\* the fetch for length L has ended on such a response
EndedOnEmptyResponse(L) ==
    /\ task[L].pc = "done"
    /\ task[L].requests = <<1>>
    /\ task[L].failed = {}
    /\ num_pages[L] = 0

\* C36: a first response that carries no result pages makes the fetch stop
\* with zero words and is not an error: the fetch returns the empty list,
\* issues no further request, performs no merge, and neither fails nor sets
\* the cancellation flag.
C36_NoPagesIsAnEmptyResult ==
    /\ [][\A L \in Lengths :
             EmptyFirstResponse(L) =>
                 /\ task'[L].all_words = <<>>
                 /\ task'[L].merges = <<>>
                 /\ task'[L].requests = <<1>>
                 /\ task'[L].failed = {}
                 /\ words' = words
                 /\ should_exit' = should_exit
                 /\ exit_by' = exit_by]_vars
    /\ [](\A L \in Lengths :
             EndedOnEmptyResponse(L) =>
                 /\ task[L].all_words = <<>>
                 /\ task[L].merges = <<>>
                 /\ L \in DOMAIN driver.results => driver.results[L] = <<>>)

\* fetch_all_words(4) got a first response without pages and its caller has
\* the empty list; cancellation was never requested
C36_Witness ==
    /\ EndedOnEmptyResponse(4)
    /\ driver.entry = "fetch_all_words"
    /\ driver.pc = "done"
    /\ driver.results[4] = <<>>
    /\ ~should_exit
    /\ words = {}

-----------------------------------------------------------------------------
(* Who writes the cancellation flag *)

\* C37: a fetch never writes the cancellation flag: at every point, and so on
\* return of every entry point, should_exit has the value the external
\* collaborator last gave it, on every path including first-request and
\* page-request errors.
C37_FetchNeverWritesTheFlag ==
    /\ exit_by # "fetch"
    /\ should_exit => exit_by = "external"

-----------------------------------------------------------------------------
(* Merges per fetch *)

\* C38: every single-length fetch invocation (fetch_all_words,
\* _fetch_single_length_with_progress, _fetch_unlimited_with_dictionary,
\* _fetch_with_limit) calls merge_with_database at most once for its buffer,
\* on every path, including the paths where cancellation is observed inside
\* the page loop.
C38_AtMostOneMergePerFetch ==
    \A L \in Lengths : Len(task[L].merges) <= 1

-----------------------------------------------------------------------------
(* Termination of a fetch (SpecFair) *)

\* the fetch for length L has returned and its caller holds its buffer
ReturnedItsBuffer(L) ==
    /\ task[L].pc = "done"
    /\ driver.pc = "done" => (L \in DOMAIN driver.results
                                /\ driver.results[L] = task[L].all_words)

\* C39: every single-length fetch terminates provided each page request
\* eventually returns or raises: for a remote declaring N pages it issues at
\* most N requests in total (the first request plus at most one per page
\* 2..N), never retries a failed page, and always reaches a return of its
\* buffer.
C39_FetchTerminates ==
    /\ [](\A L \in Lengths :
             /\ Len(task[L].requests) <= 1 + Cardinality(2..num_pages[L])
             /\ num_pages[L] >= 1 => Len(task[L].requests) <= num_pages[L]
             /\ \A i, j \in 1..Len(task[L].requests) :
                   i < j => task[L].requests[i] < task[L].requests[j]
             /\ task[L].failed \subseteq SeqToSet(task[L].requests))
    /\ <>(driver.pc = "done" /\ \A L \in Lengths :
              InList(L, driver.lengths) => ReturnedItsBuffer(L))

\* _fetch_single_length_with_progress(4) against three pages: the requests
\* for pages 2 and 3 both failed, each was sent once, and the fetch has
\* returned the words of page 1 to its caller
C39_Witness ==
    /\ driver.entry = "_fetch_single_length_with_progress"
    /\ driver.pc = "done"
    /\ num_pages[4] = 3
    /\ task[4].requests = <<1, 2, 3>>
    /\ task[4].failed = {2, 3}
    /\ ReturnedItsBuffer(4)
    /\ Len(driver.results[4]) = 2

-----------------------------------------------------------------------------
(* A capped fetch that stops short of its cap *)

\* the capped fetch for length L has ended by itself (no failed request, no
\* cancellation observed) with pages of the remote left unfetched
StoppedWithPagesLeft(L) ==
    /\ task[L].kind = "_fetch_with_limit"
    /\ task[L].pc = "done"
    /\ task[L].failed = {}
    /\ ~ShouldExit
    /\ task[L].requests # <<>>
    /\ num_pages[L] >= 1
    /\ Len(task[L].requests) < num_pages[L]

\* C40: a capped fetch that stops while remote pages remain unfetched is
\* always merged as partial: also when _fetch_with_limit stops because the
\* estimated ceil(cap / page_size) pages have been fetched although fewer
\* than cap words were accumulated (short or empty pages), the merge is made
\* with is_partial=True.
C40_StoppedEarlyMergesPartial ==
    \A L \in Lengths :
        StoppedWithPagesLeft(L) =>
            /\ task[L].merges # <<>>
            /\ \A i \in 1..Len(task[L].merges) : task[L].merges[i].is_partial

====
